--------------------------- MODULE Spec2Model ---------------------------
(***************************************************************************)
(* A model of Review Board's diff upload forms                             *)
(* (reviewboard/diffviewer/forms.py): UploadCommitForm and UploadDiffForm, *)
(* the Django form validation they run under, and the upload managers      *)
(* they hand a valid submission to.                                        *)
(*                                                                         *)
(* Text is modelled as a sequence of one-character strings, so that        *)
(* lengths, prefixes and parsing are computed and not assumed.             *)
(***************************************************************************)
EXTENDS Integers, Sequences, FiniteSets, TLC

None == "None"

(***************************************************************************)
(* Text helpers.                                                           *)
(***************************************************************************)
Rep(c, n) == [i \in 1..n |-> c]

Min(a, b) == IF a < b THEN a ELSE b

\* Python's s[a:b] for 0 <= a, 0 <= b (0-based, clamped to the length).
Slice(s, a, b) ==
    IF a >= Min(b, Len(s)) THEN <<>> ELSE SubSeq(s, a + 1, Min(b, Len(s)))

\* Python's s[a:].
SliceFrom(s, a) == Slice(s, a, Len(s))

DIGITS == {"0", "1", "2", "3", "4", "5", "6", "7", "8", "9"}

DigitVal(c) ==
    CASE c = "0" -> 0 [] c = "1" -> 1 [] c = "2" -> 2 [] c = "3" -> 3
      [] c = "4" -> 4 [] c = "5" -> 5 [] c = "6" -> 6 [] c = "7" -> 7
      [] c = "8" -> 8 [] c = "9" -> 9

\* int(s) succeeds, for the inputs drawn here, exactly on a non-empty run of
\* decimal digits; anything else is a ValueError.
IsInt(s) == Len(s) > 0 /\ \A i \in 1..Len(s) : s[i] \in DIGITS

RECURSIVE IntOf(_)
IntOf(s) ==
    IF Len(s) = 0 THEN 0
    ELSE 10 * IntOf(SubSeq(s, 1, Len(s) - 1)) + DigitVal(s[Len(s)])

(***************************************************************************)
(* dateutil.parser.isoparse, as called by clean_author_date and            *)
(* clean_committer_date.  The result is either a datetime or ValueError.   *)
(* The calendar forms YYYY, YYYY-MM, YYYY-MM-DD and YYYYMMDD are parsed,   *)
(* then one separator character, then hh[[:]mm[[:]ss[.frac]]] and a zone   *)
(* (Z, +hh, +hhmm, +hh:mm).  ISO week and ordinal dates are not among the  *)
(* inputs drawn and are treated as unparsable.                             *)
(***************************************************************************)
ValueError == [ok |-> FALSE]

IsLeap(y) == (y % 4 = 0 /\ y % 100 # 0) \/ y % 400 = 0

DaysInMonth(y, m) ==
    IF m = 2 THEN (IF IsLeap(y) THEN 29 ELSE 28)
    ELSE IF m \in {4, 6, 9, 11} THEN 30 ELSE 31

\* _parse_isodate_common: [ok, c (year, month, day), pos]
parse_isodate_common(s) ==
    LET n == Len(s) IN
    IF n < 4 \/ ~IsInt(Slice(s, 0, 4)) THEN ValueError
    ELSE
      LET year == IntOf(Slice(s, 0, 4)) IN
      IF 4 >= n THEN [ok |-> TRUE, c |-> <<year, 1, 1>>, pos |-> 4]
      ELSE
        LET has_sep == (s[5] = "-")
            p1      == IF has_sep THEN 5 ELSE 4
        IN
        IF n - p1 < 2 \/ ~IsInt(Slice(s, p1, p1 + 2)) THEN ValueError
        ELSE
          LET month == IntOf(Slice(s, p1, p1 + 2))
              p2    == p1 + 2
          IN
          IF p2 >= n
          THEN (IF has_sep
                THEN [ok |-> TRUE, c |-> <<year, month, 1>>, pos |-> p2]
                ELSE ValueError)
          ELSE
            IF has_sep /\ s[p2 + 1] # "-" THEN ValueError
            ELSE
              LET p3 == IF has_sep THEN p2 + 1 ELSE p2 IN
              IF n - p3 < 2 \/ ~IsInt(Slice(s, p3, p3 + 2)) THEN ValueError
              ELSE [ok |-> TRUE,
                    c |-> <<year, month, IntOf(Slice(s, p3, p3 + 2))>>,
                    pos |-> p3 + 2]

\* _parse_tzstr: [ok, tz].  A zone is <<>> for a naive time and <<m>> for an
\* offset of m minutes from UTC (tz.UTC is <<0>>).
parse_tzstr(t) ==
    IF t = <<"Z">> \/ t = <<"z">> THEN [ok |-> TRUE, tz |-> <<0>>]
    ELSE IF Len(t) \notin {3, 5, 6} THEN ValueError
    ELSE IF t[1] \notin {"-", "+"} THEN ValueError
    ELSE IF ~IsInt(Slice(t, 1, 3)) THEN ValueError
    ELSE
      LET mult  == IF t[1] = "-" THEN -1 ELSE 1
          hours == IntOf(Slice(t, 1, 3))
          mstr  == IF Len(t) = 3 THEN <<"0">>
                   ELSE SliceFrom(t, IF t[4] = ":" THEN 4 ELSE 3)
      IN
      IF ~IsInt(mstr) THEN ValueError
      ELSE
        LET minutes == IntOf(mstr) IN
        IF hours = 0 /\ minutes = 0 THEN [ok |-> TRUE, tz |-> <<0>>]
        ELSE IF minutes > 59 \/ hours > 23 THEN ValueError
        ELSE [ok |-> TRUE, tz |-> <<mult * (hours * 60 + minutes)>>]

\* The number of leading digits of s.
RECURSIVE DigitRun(_)
DigitRun(s) ==
    IF Len(s) = 0 \/ s[1] \notin DIGITS THEN 0 ELSE 1 + DigitRun(Tail(s))

RECURSIVE Pow10(_)
Pow10(k) == IF k = 0 THEN 1 ELSE 10 * Pow10(k - 1)

\* The loop of _parse_isotime: comp is the component index before the
\* iteration, c = <<hour, minute, second, microsecond, tz>>.
RECURSIVE isotime_loop(_, _, _, _, _)
isotime_loop(t, pos, comp, has_sep, c) ==
    IF ~(pos < Len(t) /\ comp < 5)
    THEN (IF pos < Len(t) THEN ValueError ELSE [ok |-> TRUE, c |-> c])
    ELSE
      LET k  == comp + 1
          ch == t[pos + 1]
      IN
      IF ch \in {"-", "+", "Z", "z"}
      THEN LET z == parse_tzstr(SliceFrom(t, pos)) IN
           IF z.ok THEN [ok |-> TRUE, c |-> [c EXCEPT ![5] = z.tz]]
           ELSE ValueError
      ELSE IF k = 2 /\ has_sep /\ ch # ":" THEN ValueError
      ELSE
        LET sep  == IF k = 1 THEN ch = ":" ELSE has_sep
            p    == IF (k = 1 /\ ch = ":") \/ (k = 2 /\ has_sep)
                    THEN pos + 1 ELSE pos
        IN
        IF k < 3
        THEN IF ~IsInt(Slice(t, p, p + 2)) THEN ValueError
             ELSE isotime_loop(t, p + 2, k, sep,
                               [c EXCEPT ![k + 1] = IntOf(Slice(t, p, p + 2))])
        ELSE IF k = 3
        THEN LET run == IF p < Len(t) /\ t[p + 1] \in {".", ","}
                        THEN DigitRun(SliceFrom(t, p + 1)) ELSE 0
             IN
             IF run = 0 THEN isotime_loop(t, p, k, sep, c)
             ELSE LET us == Slice(t, p + 1, p + 1 + Min(run, 6)) IN
                  isotime_loop(t, p + 1 + run, k, sep,
                      [c EXCEPT ![4] = IntOf(us) * Pow10(6 - Len(us))])
        ELSE isotime_loop(t, p, k, sep, c)

\* _parse_isotime
isotime_midnight(r) ==
    IF ~r.ok THEN ValueError
    ELSE IF r.c[1] = 24 /\ (r.c[2] # 0 \/ r.c[3] # 0 \/ r.c[4] # 0)
    THEN ValueError
    ELSE r

parse_isotime(t) ==
    IF Len(t) < 2 THEN ValueError
    ELSE isotime_midnight(isotime_loop(t, 0, -1, FALSE, <<0, 0, 0, 0, <<>>>>))

\* datetime(*components): the constructor's range checks.
datetime(d, t) ==
    IF /\ d[1] \in 1..9999
       /\ d[2] \in 1..12
       /\ d[3] \in 1..DaysInMonth(d[1], d[2])
       /\ t[1] \in 0..23
       /\ t[2] \in 0..59
       /\ t[3] \in 0..59
    THEN [ok |-> TRUE,
          value |-> [year |-> d[1], month |-> d[2], day |-> d[3],
                     hour |-> t[1], minute |-> t[2], second |-> t[3],
                     microsecond |-> t[4], tzinfo |-> t[5]]]
    ELSE ValueError

\* datetime + timedelta(days=1), for the 24:00 form of midnight.
NextDay(v) ==
    IF v.day < DaysInMonth(v.year, v.month) THEN [v EXCEPT !.day = v.day + 1]
    ELSE IF v.month < 12 THEN [v EXCEPT !.day = 1, !.month = v.month + 1]
    ELSE [v EXCEPT !.day = 1, !.month = 1, !.year = v.year + 1]

datetime_next_day(r) ==
    IF r.ok THEN [ok |-> TRUE, value |-> NextDay(r.value)] ELSE r

\* isoparse, after the date part d and the time part t were parsed.
isoparse_datetime(d, t) ==
    IF ~t.ok THEN ValueError
    ELSE IF t.c[1] = 24
    THEN datetime_next_day(datetime(d.c, [t.c EXCEPT ![1] = 0]))
    ELSE datetime(d.c, t.c)

\* isoparse, after the date part d was parsed.
isoparse_date(s, d) ==
    IF ~d.ok THEN ValueError
    ELSE IF Len(s) > d.pos
    THEN isoparse_datetime(d, parse_isotime(SliceFrom(s, d.pos + 1)))
    ELSE datetime(d.c, <<0, 0, 0, 0, <<>>>>)

isoparse(s) == isoparse_date(s, parse_isodate_common(s))

(***************************************************************************)
(* Django form fields (django.forms.fields), as the forms declare them.    *)
(* A field's clean() answers [ok |-> TRUE, value] or [ok |-> FALSE, msg].  *)
(***************************************************************************)
REQUIRED_MSG == "This field is required."
MAX_LENGTH_MSG == "Ensure this value has at most N characters."
INVALID_ID_MSG == "This is not a valid commit ID."
ISO_8601_MSG == "This date must be in ISO 8601 format."
PUBLISHED_MSG == "Cannot upload commits to a published diff."
NON_FIELD_ERRORS == "__all__"

Ok(v) == [ok |-> TRUE, value |-> v]
Invalid(m) == [ok |-> FALSE, msg |-> m]

NoValidator(v) == TRUE

\* CharField.clean: required, then max_length (max_length < 0: none), then
\* the validators, which are skipped for an empty value.
CharField_clean(value, required, max_length, Validator(_)) ==
    IF value = <<>>
    THEN (IF required THEN Invalid(REQUIRED_MSG) ELSE Ok(value))
    ELSE IF max_length >= 0 /\ Len(value) > max_length
    THEN Invalid(MAX_LENGTH_MSG)
    ELSE IF ~Validator(value) THEN Invalid(INVALID_ID_MSG)
    ELSE Ok(value)

\* FileField.clean: an uploaded file is a handle, None when not submitted.
FileField_clean(file, required) ==
    IF file = None
    THEN (IF required THEN Invalid(REQUIRED_MSG) ELSE Ok(None))
    ELSE Ok(file)

(***************************************************************************)
(* reviewboard.diffviewer.validators and the DiffCommit length limits.     *)
(* Their definitions lie outside the files modelled; the forms depend only *)
(* on each being a fixed length and on validate_commit_id accepting        *)
(* identifier characters only.                                             *)
(***************************************************************************)
COMMIT_ID_LENGTH == 64
NAME_MAX_LENGTH == 256
EMAIL_MAX_LENGTH == 256

LETTERS ==
    {"a", "b", "c", "d", "e", "f", "g", "h", "i", "j", "k", "l", "m",
     "n", "o", "p", "q", "r", "s", "t", "u", "v", "w", "x", "y", "z",
     "A", "B", "C", "D", "E", "F", "G", "H", "I", "J", "K", "L", "M",
     "N", "O", "P", "Q", "R", "S", "T", "U", "V", "W", "X", "Y", "Z"}

validate_commit_id(v) == \A i \in 1..Len(v) : v[i] \in LETTERS \cup DIGITS

(***************************************************************************)
(* Text constants used as inputs.                                          *)
(***************************************************************************)
ID_r0 == <<"r", "0">>
ID_r1 == <<"r", "1">>
ID_r2 == <<"r", "2">>
ID_r9 == <<"r", "9">>
ID_BAD == <<"r", " ", "1">>
ID_LONG == Rep("a", COMMIT_ID_LENGTH + 1)

DATE_ISO ==
    <<"1", "9", "7", "0", "-", "0", "1", "-", "0", "1", " ",
      "0", "0", ":", "0", "0", ":", "0", "0", "+", "0", "0", "0", "0">>
DATE_JAN == <<"J", "a", "n", " ", "1", " ", "1", "9", "7", "0">>
DATE_JUN == <<"J", "u", "n", " ", "1", " ", "1", "9", "7", "0">>

TXT_MESSAGE == <<"M", "e", "s", "s", "a", "g", "e">>
TXT_AUTHOR == <<"A", "u", "t", "h", "o", "r">>
TXT_AUTHOR_EMAIL == <<"a", "@", "e", ".", "o", "r", "g">>
TXT_COMMITTER == <<"C", "o", "m", "m", "i", "t", "t", "e", "r">>
TXT_COMMITTER_EMAIL == <<"c", "@", "e", ".", "o", "r", "g">>

(***************************************************************************)
(* State.                                                                  *)
(*   diffset  the DiffSet commits are uploaded to: its history_id (None    *)
(*            until it is published) and the commit IDs of its commits,    *)
(*            in upload order.                                             *)
(*   cform    the UploadCommitForm of the request in progress.             *)
(*   dform    the UploadDiffForm of the request in progress.               *)
(*   upload   the DiffSet that UploadDiffForm.create returned, if any.     *)
(*   calls    the calls seen since the form was bound: get_file_exists,    *)
(*            get_file and patch, each in call order.                      *)
(*   view     the file of the created DiffSet being reconstructed and the  *)
(*            results of get_original_file and get_patched_file.           *)
(*   gh       the last call made to the GitHub hosting service: the        *)
(*            operation, its arguments, the requests it sent and what it   *)
(*            returned or raised.                                          *)
(*   cache    the Django cache: the commits kept under their cache keys.   *)
(***************************************************************************)
VARIABLES diffset, cform, dform, upload, calls, view, gh, cache

vars == <<diffset, cform, dform, upload, calls, view, gh, cache>>

githubVars == <<gh, cache>>

commitVars == <<diffset, cform>>

diffVars == <<dform, upload, calls, view>>

\* Bound on the number of commits uploaded to the DiffSet.
MaxCommits == 2

HISTORY_1 == "history-1"

\* The parent of a DiffSet's first commit (test_forms.py, _default_form_data).
ROOT_ID == ID_r0

UnboundCommitForm ==
    [pc |-> "unbound",
     diffset |-> [history_id |-> None],
     data |-> [commit_id |-> <<>>, parent_id |-> <<>>,
               commit_message |-> <<>>, author_name |-> <<>>,
               author_email |-> <<>>, author_date |-> <<>>,
               committer_name |-> <<>>, committer_email |-> <<>>,
               committer_date |-> <<>>],
     files |-> [diff |-> None, parent_diff |-> None],
     errors |-> {},
     cleaned_data |-> [n \in {} |-> None],
     result |-> <<>>,
     raised |-> FALSE]

UnboundDiffForm ==
    [pc |-> "unbound",
     repository |-> [tool |-> "Test"],
     data |-> [basedir |-> <<>>, base_commit_id |-> <<>>],
     files |-> [path |-> None, parent_diff_path |-> None],
     errors |-> {},
     cleaned_data |-> [n \in {} |-> None],
     raised |-> FALSE]

NoCalls == [exists |-> <<>>, get_file |-> <<>>, patch |-> <<>>]

NoContent == [ok |-> FALSE, data |-> <<>>]

NoView == [pc |-> "none", file |-> 0, original |-> NoContent,
           patched |-> NoContent]

CommitIdle == diffset = [history_id |-> None, commits |-> <<>>,
                         files |-> <<>>, commit_files |-> <<>>,
                         creates |-> 0]
              /\ cform = UnboundCommitForm

DiffIdle == dform = UnboundDiffForm /\ upload = <<>> /\ calls = NoCalls
            /\ view = NoView

\* No call was made to the hosting service yet and the cache is empty.
NoCall == [op |-> "none", args |-> [n \in {} |-> None], requests |-> <<>>,
           result |-> <<>>, raised |-> <<>>]

GitHubIdle == gh = NoCall /\ cache = {}

(***************************************************************************)
(* UploadCommitForm: the declared fields.                                  *)
(***************************************************************************)
UploadCommitForm_fields ==
    <<"diff", "parent_diff", "commit_id", "parent_id", "commit_message",
      "author_name", "author_email", "author_date", "committer_name",
      "committer_email", "committer_date">>

commit_id_field_NoMaxLength(value) ==
    CharField_clean(value, TRUE, -1, validate_commit_id)

commit_id_field(value) ==
    CharField_clean(value, TRUE, COMMIT_ID_LENGTH, validate_commit_id)

parent_id_field(value) ==
    CharField_clean(value, TRUE, COMMIT_ID_LENGTH, validate_commit_id)

commit_message_field(value) == CharField_clean(value, TRUE, -1, NoValidator)

author_name_field(value) ==
    CharField_clean(value, TRUE, NAME_MAX_LENGTH, NoValidator)

author_email_field(value) ==
    CharField_clean(value, TRUE, EMAIL_MAX_LENGTH, NoValidator)

author_date_field(value) == CharField_clean(value, TRUE, -1, NoValidator)

committer_name_field(value) ==
    CharField_clean(value, FALSE, NAME_MAX_LENGTH, NoValidator)

committer_email_field(value) ==
    CharField_clean(value, FALSE, EMAIL_MAX_LENGTH, NoValidator)

committer_date_field(value) == CharField_clean(value, FALSE, -1, NoValidator)

\* try: return isoparse(...) except ValueError: raise ValidationError(...)
iso_8601_or_error(r) == IF r.ok THEN Ok(r.value) ELSE Invalid(ISO_8601_MSG)

EPOCH ==
    [year |-> 1970, month |-> 1, day |-> 1, hour |-> 0, minute |-> 0,
     second |-> 0, microsecond |-> 0, tzinfo |-> <<>>]

clean_author_date_AcceptAll(value) == Ok(EPOCH)

\* UploadCommitForm.clean_author_date
clean_author_date(value) == iso_8601_or_error(isoparse(value))

\* UploadCommitForm.clean_committer_date
clean_committer_date(value) == iso_8601_or_error(isoparse(value))

\* value = field.clean(value), then value = self.clean_<name>().
then_clean(r, Clean(_)) == IF r.ok THEN Clean(r.value) ELSE r

\* Form._clean_fields for one field: the field's own clean(), then the
\* form's clean_<name>() when the form has one.
CommitFieldResult(form, name) ==
    CASE name = "diff" -> FileField_clean(form.files.diff, TRUE)
      [] name = "parent_diff" -> FileField_clean(form.files.parent_diff, FALSE)
      [] name = "commit_id" -> commit_id_field(form.data.commit_id)
      [] name = "parent_id" -> parent_id_field(form.data.parent_id)
      [] name = "commit_message" ->
            commit_message_field(form.data.commit_message)
      [] name = "author_name" -> author_name_field(form.data.author_name)
      [] name = "author_email" -> author_email_field(form.data.author_email)
      [] name = "author_date" ->
            then_clean(author_date_field(form.data.author_date),
                       clean_author_date)
      [] name = "committer_name" ->
            committer_name_field(form.data.committer_name)
      [] name = "committer_email" ->
            committer_email_field(form.data.committer_email)
      [] name = "committer_date" ->
            then_clean(committer_date_field(form.data.committer_date),
                       clean_committer_date)

UploadCommitForm_clean_NoHistoryCheck(form) == Ok(None)

\* UploadCommitForm.clean
UploadCommitForm_clean(form) ==
    IF form.diffset.history_id # None
    THEN Invalid(PUBLISHED_MSG)
    ELSE Ok(None)

Range(f) == {f[i] : i \in DOMAIN f}

\* Form.full_clean: _clean_fields gives results (one per field), then
\* _clean_form gives whole.  errors is a set of <<field name, message>>
\* pairs; cleaned_data keeps the fields that passed.
full_clean_results(form, results, whole) ==
    [form EXCEPT
       !.pc = "validated",
       !.errors =
           {<<n, results[n].msg>> : n \in {m \in DOMAIN results : ~results[m].ok}}
           \cup (IF whole.ok THEN {} ELSE {<<NON_FIELD_ERRORS, whole.msg>>}),
       !.cleaned_data =
           [n \in {m \in DOMAIN results : results[m].ok} |-> results[n].value]]

UploadCommitForm_full_clean(form) ==
    full_clean_results(
        form,
        [n \in Range(UploadCommitForm_fields) |-> CommitFieldResult(form, n)],
        UploadCommitForm_clean(form))

\* dict.get(key): <<value>>, or <<>> for Python's None.
Get(d, key) == IF key \in DOMAIN d THEN <<d[key]>> ELSE <<>>

UploadCommitForm_create_args_NoDiff(form) ==
    LET cd == form.cleaned_data IN
    [diffset         |-> form.diffset,
     diff_file       |-> None,
     parent_diff_file |-> Get(cd, "parent_diff"),
     commit_message  |-> cd["commit_message"],
     commit_id       |-> cd["commit_id"],
     parent_id       |-> cd["parent_id"],
     author_name     |-> cd["author_name"],
     author_email    |-> cd["author_email"],
     author_date     |-> cd["author_date"],
     committer_name  |-> Get(cd, "committer_name"),
     committer_email |-> Get(cd, "committer_email"),
     committer_date  |-> Get(cd, "committer_date")]

\* The arguments UploadCommitForm.create passes to create_from_upload.
UploadCommitForm_create_args(form) ==
    LET cd == form.cleaned_data IN
    [diffset         |-> form.diffset,
     diff_file       |-> cd["diff"],
     parent_diff_file |-> Get(cd, "parent_diff"),
     commit_message  |-> cd["commit_message"],
     commit_id       |-> cd["commit_id"],
     parent_id       |-> cd["parent_id"],
     author_name     |-> cd["author_name"],
     author_email    |-> cd["author_email"],
     author_date     |-> cd["author_date"],
     committer_name  |-> Get(cd, "committer_name"),
     committer_email |-> Get(cd, "committer_email"),
     committer_date  |-> Get(cd, "committer_date")]

\* An optional argument that was not given: None or empty text.
Absent(opt) == opt = <<>> \/ opt[1] = <<>>

\* DiffCommit.objects.create_from_upload: the DiffCommit it creates.  The
\* committer defaults to the author where it was not given.
DiffCommit_create_from_upload(args) ==
    [commit_id       |-> args.commit_id,
     parent_id       |-> args.parent_id,
     commit_message  |-> args.commit_message,
     author_name     |-> args.author_name,
     author_email    |-> args.author_email,
     author_date     |-> args.author_date,
     committer_name  |-> IF Absent(args.committer_name)
                         THEN args.author_name ELSE args.committer_name[1],
     committer_email |-> IF Absent(args.committer_email)
                         THEN args.author_email ELSE args.committer_email[1],
     committer_date  |-> IF args.committer_date = <<>>
                         THEN args.author_date ELSE args.committer_date[1]]

(***************************************************************************)
(* The commit upload flow.                                                 *)
(***************************************************************************)
CommitIdInputs == {ID_r1, ID_r2, ID_BAD, ID_LONG}
ParentIdInputs == {ID_r0, ID_r1, ID_r9, ID_BAD, ID_LONG}
AuthorDateInputs == {DATE_ISO, DATE_JAN, <<>>}
CommitterDateInputs == {DATE_ISO, DATE_JUN, <<>>}
FileInputs(name) == {None, name}

CommitInit == CommitIdle /\ DiffIdle /\ GitHubIdle

\* UploadCommitForm.__init__: a request binds a form to the DiffSet as it
\* is when the request loads it.
NewUploadCommitForm ==
    \E cid \in CommitIdInputs, pid \in ParentIdInputs,
       adate \in AuthorDateInputs, cdate \in CommitterDateInputs,
       diff \in FileInputs("diff"), pdiff \in FileInputs("parent_diff"),
       committer \in BOOLEAN :
        /\ cform.pc = "unbound"
        /\ cform' =
             [UnboundCommitForm EXCEPT
                !.pc = "bound",
                !.diffset = [history_id |-> diffset.history_id],
                !.data = [commit_id |-> cid, parent_id |-> pid,
                          commit_message |-> TXT_MESSAGE,
                          author_name |-> TXT_AUTHOR,
                          author_email |-> TXT_AUTHOR_EMAIL,
                          author_date |-> adate,
                          committer_name |->
                              IF committer THEN TXT_COMMITTER ELSE <<>>,
                          committer_email |->
                              IF committer THEN TXT_COMMITTER_EMAIL ELSE <<>>,
                          committer_date |-> cdate],
                !.files = [diff |-> diff, parent_diff |-> pdiff]]
        /\ UNCHANGED <<diffset, diffVars, githubVars>>

\* form.is_valid(): full_clean() runs once and its outcome is kept in the
\* form.  The view calls it before create(); create() on a form that was
\* not validated yet takes this step first (assert self.is_valid()).
CommitIsValid ==
    /\ cform.pc = "bound"
    /\ cform' = UploadCommitForm_full_clean(cform)
    /\ UNCHANGED <<diffset, diffVars, githubVars>>

\* Form.is_valid of a form whose errors were computed.
UploadCommitForm_is_valid(form) == form.errors = {}

\* The paths of the files of an uploaded diff; None has none.  The diff of
\* the tests changes README.
UploadedFiles(file) == IF file = None THEN <<>> ELSE <<"README">>

\* The FileDiffs create_from_upload adds to a DiffSet that has n of them.
DiffCommit_files(args, n) ==
    [i \in 1..Len(UploadedFiles(args.diff_file)) |->
        [id |-> n + i, path |-> UploadedFiles(args.diff_file)[i]]]

FileIds(files) == {files[i].id : i \in 1..Len(files)}

\* create_from_upload has run: the commit is in the DiffSet, and its files
\* are files of the commit and of the DiffSet.  creates counts the calls
\* that returned.
CommitCreated(args) ==
    /\ cform' = [cform EXCEPT
                   !.pc = "created",
                   !.result = <<DiffCommit_create_from_upload(args)>>]
    /\ diffset' = [diffset EXCEPT
                     !.commits = Append(@, args.commit_id),
                     !.files = @ \o DiffCommit_files(args, Len(diffset.files)),
                     !.commit_files =
                         Append(@, FileIds(DiffCommit_files(
                                               args, Len(diffset.files)))),
                     !.creates = @ + 1]

\* UploadCommitForm.create on a form that is valid.
CommitCreate ==
    /\ cform.pc = "validated"
    /\ UploadCommitForm_is_valid(cform)
    /\ Len(diffset.commits) < MaxCommits
    /\ CommitCreated(UploadCommitForm_create_args(cform))
    /\ UNCHANGED <<diffVars, githubVars>>

\* UploadCommitForm.create on a form that is not valid: the assertion
\* fails and nothing is handed to create_from_upload.
CommitCreateAssertionError ==
    /\ cform.pc = "validated"
    /\ ~UploadCommitForm_is_valid(cform)
    /\ cform' = [cform EXCEPT !.pc = "failed", !.raised = TRUE]
    /\ UNCHANGED <<diffset, diffVars, githubVars>>

\* The request ends and its form is dropped.
CommitRequestEnds ==
    /\ cform.pc \in {"validated", "created", "failed"}
    /\ cform' = UnboundCommitForm
    /\ UNCHANGED <<diffset, diffVars, githubVars>>

\* The DiffSet is published: it gets a DiffSetHistory.
Publish ==
    /\ diffset.history_id = None
    /\ diffset' = [diffset EXCEPT !.history_id = HISTORY_1]
    /\ UNCHANGED <<cform, diffVars, githubVars>>

CommitNext ==
    \/ NewUploadCommitForm
    \/ CommitIsValid
    \/ CommitCreate
    \/ CommitCreateAssertionError
    \/ CommitRequestEnds
    \/ Publish

SpecCommit == CommitInit /\ [][CommitNext]_vars

(***************************************************************************)
(* Properties of the commit upload flow.                                   *)
(***************************************************************************)
CommitFormValidated == cform.pc \in {"validated", "created", "failed"}

ErrorFields(form) == {e[1] : e \in form.errors}

\* C1: a form bound to a published DiffSet (history_id is not None) fails
\* validation with a non-field error whatever was submitted, and a form
\* bound after the DiffSet was published never creates a commit.
C1_PublishedDiffSetRejects ==
    cform.diffset.history_id # None =>
        /\ cform.pc # "created"
        /\ cform.result = <<>>
        /\ CommitFormValidated =>
              /\ <<NON_FIELD_ERRORS, PUBLISHED_MSG>> \in cform.errors
              /\ ~UploadCommitForm_is_valid(cform)

\* C1 witness: every field is valid, the DiffSet is published, and create()
\* was refused with the non-field error as the only error.
C1_Witness ==
    /\ cform.pc = "failed"
    /\ cform.raised
    /\ cform.diffset.history_id # None
    /\ cform.errors = {<<NON_FIELD_ERRORS, PUBLISHED_MSG>>}

NonIsoDates == {DATE_JAN, DATE_JUN}

\* C2: an author_date or committer_date that is not ISO 8601 ('Jan 1 1970')
\* puts an error under that field's own name at validation, and nothing is
\* created from that submission.
C2_NonIsoDateRejected ==
    CommitFormValidated =>
        /\ cform.data.author_date \in NonIsoDates =>
              /\ <<"author_date", ISO_8601_MSG>> \in cform.errors
              /\ "author_date" \notin DOMAIN cform.cleaned_data
              /\ cform.pc # "created" /\ cform.result = <<>>
        /\ cform.data.committer_date \in NonIsoDates =>
              /\ <<"committer_date", ISO_8601_MSG>> \in cform.errors
              /\ "committer_date" \notin DOMAIN cform.cleaned_data
              /\ cform.pc # "created" /\ cform.result = <<>>

\* C2 witness: 'Jan 1 1970' as author_date is the only error of a form
\* whose create() was refused.
C2_Witness ==
    /\ cform.pc = "failed"
    /\ cform.data.author_date = DATE_JAN
    /\ cform.errors = {<<"author_date", ISO_8601_MSG>>}

CommitterFields == {"committer_name", "committer_email", "committer_date"}

CommitterOmitted(form) ==
    /\ form.data.committer_name = <<>>
    /\ form.data.committer_email = <<>>
    /\ form.data.committer_date = <<>>

\* C3: the committer fields are optional: a submission on an unpublished
\* DiffSet that omits them and is valid in every other field passes
\* validation, and the created commit takes the author's name, e-mail and
\* timestamp as the committer's.
C3_CommitterOptional ==
    (/\ CommitFormValidated
     /\ cform.diffset.history_id = None
     /\ CommitterOmitted(cform)
     /\ ErrorFields(cform) \subseteq CommitterFields)
    => /\ UploadCommitForm_is_valid(cform)
       /\ cform.pc = "created" =>
             /\ cform.result[1].committer_name = cform.result[1].author_name
             /\ cform.result[1].committer_email = cform.result[1].author_email
             /\ cform.result[1].committer_date = cform.result[1].author_date

ParentKnown(id) ==
    id = ROOT_ID \/ \E i \in 1..Len(diffset.commits) : diffset.commits[i] = id

\* C4: a commit upload to an unpublished DiffSet is accepted if and only if
\* its parent_id is the ID of a commit already in the DiffSet or the
\* DiffSet's root.
C4_ParentMustBeKnown ==
    (/\ cform.pc = "validated"
     /\ cform.diffset.history_id = None
     /\ ErrorFields(cform) \subseteq {"parent_id"})
    => (UploadCommitForm_is_valid(cform) <=> ParentKnown(cform.data.parent_id))

\* C5: commit_id and parent_id are checked against COMMIT_ID_LENGTH and the
\* commit ID validator at validation; a value that fails either makes the
\* form invalid, and create() hands nothing to create_from_upload.
C5_CommitIdsChecked ==
    CommitFormValidated =>
        \A f \in {"commit_id", "parent_id"} :
            (\/ Len(cform.data[f]) > COMMIT_ID_LENGTH
             \/ ~validate_commit_id(cform.data[f]))
            => /\ f \in ErrorFields(cform)
               /\ ~UploadCommitForm_is_valid(cform)
               /\ cform.pc # "created" /\ cform.result = <<>>

\* C5 witness: a commit_id one character too long is the only error of a
\* form whose create() was refused.
C5_Witness ==
    /\ cform.pc = "failed"
    /\ cform.data.commit_id = ID_LONG
    /\ cform.errors = {<<"commit_id", MAX_LENGTH_MSG>>}

(***************************************************************************)
(* Diffs.  A parsed diff is its file records, in order, and the base       *)
(* revision its dialect embeds in the diff metadata (get_orig_commit_id),  *)
(* None when the dialect has none.  A file record holds the original and   *)
(* modified path and revision, the hunks, and data, the section of the     *)
(* diff text it was parsed from.  A hunk is the original start line and    *)
(* the tagged lines (" " context, "-" removed, "+" added).                 *)
(***************************************************************************)
PRE_CREATION == "PRE_CREATION"
UNKNOWN == "UNKNOWN"

REV_0 == "93e6b3e8944c48737cb11a1e52b046fa30aea7a9"
REV_1 == "4839fc480f47ca59cf05a9c39410ea744d1e17a2"
REV_2 == "04861c126cfebd7e7cb93045ab0bff4a7acc4cf2"
HG_NODE == "a6fc203fee9091ff9739c9c00cd4a6694e023f48"
HG_PARENT == "7c4735ef51a7c665b5654f1a111ae430ce84ebbd"
HG_BASE == "661e5dd3c4938ecbe8f77e2fdfa905d70485f94c"

FileRecord(origFile, origInfo, newFile, newInfo, hunks, data) ==
    [origFile |-> origFile, origInfo |-> origInfo, newFile |-> newFile,
     newInfo |-> newInfo, hunks |-> hunks, data |-> data]

Hunk(start, lines) == [start |-> start, lines |-> lines]

README_SECTION ==
    FileRecord("README", "94bdd3e", "README", "197009f",
               <<Hunk(2, << <<"-", "blah blah">>, <<"+", "blah!">> >>)>>,
               "DEFAULT_GIT_FILEDIFF_DATA")

NEWFILE_SECTION ==
    FileRecord("NEWFILE", PRE_CREATION, "NEWFILE", "e69de29",
               <<Hunk(0, << <<"+", "new">> >>)>>, "diff_newfile")

\* The diff files of the tests, by name, as the parser reads them.
ParsedDiff(file) ==
    CASE file = "DEFAULT_GIT_FILEDIFF_DATA" ->
           [orig_commit_id |-> None, files |-> <<README_SECTION>>]
      [] file = "readme_and_newfile_diff" ->
           [orig_commit_id |-> None,
            files |-> <<README_SECTION, NEWFILE_SECTION>>]
      [] file = "readme_unused_parent_diff" ->
           [orig_commit_id |-> None,
            files |-> <<
              FileRecord("README", "d6613f4", "README", "5b50865",
                  <<Hunk(2, << <<"-", "blah..">>, <<"+", "blah blah">> >>)>>,
                  "parent_diff_1"),
              FileRecord("UNUSED", "1234567", "UNUSED", "5b50866",
                  <<Hunk(1, << <<"-", "foo">>, <<"+", "bar">> >>)>>,
                  "parent_diff_2") >>]
      [] file = "move_parent_diff" ->
           [orig_commit_id |-> None,
            files |-> <<FileRecord("foo", UNKNOWN, "bar", UNKNOWN, <<>>,
                                   "move_parent_diff")>>]
      [] file = "bar_diff" ->
           [orig_commit_id |-> None,
            files |-> <<
              FileRecord("bar", REV_0, "bar", REV_1,
                  <<Hunk(1, << <<" ", "Foo">>, <<"+", "Bar">> >>)>>,
                  "bar_diff") >>]
      [] file = "move_change_parent_diff" ->
           [orig_commit_id |-> None,
            files |-> <<
              FileRecord("foo", REV_0, "bar", REV_1,
                  <<Hunk(1, << <<" ", "Foo">>, <<"+", "Bar">> >>)>>,
                  "move_change_parent_diff") >>]
      [] file = "bar_baz_diff" ->
           [orig_commit_id |-> None,
            files |-> <<
              FileRecord("bar", REV_1, "bar", REV_2,
                  <<Hunk(1, << <<" ", "Foo">>, <<" ", "Bar">>,
                               <<"+", "Baz">> >>)>>,
                  "bar_baz_diff") >>]
      [] file = "hg_diff" ->
           [orig_commit_id |-> HG_PARENT,
            files |-> <<
              FileRecord("doc/readme", HG_PARENT, "doc/readme", HG_NODE,
                  <<Hunk(1, << <<" ", "Hello">>, <<"-", "">>, <<"+", "...">>,
                               <<" ", "goodbye">> >>)>>,
                  "hg_diff") >>]
      [] file = "hg_newfile_parent_diff" ->
           [orig_commit_id |-> HG_BASE,
            files |-> <<
              FileRecord("doc/newfile", PRE_CREATION, "doc/newfile", HG_PARENT,
                  <<Hunk(0, << <<"+", "Lorem ipsum">> >>)>>,
                  "hg_newfile_parent_diff") >>]
      [] file = "hg_newfile_diff" ->
           [orig_commit_id |-> HG_PARENT,
            files |-> <<
              FileRecord("doc/newfile", HG_PARENT, "doc/newfile", HG_NODE,
                  <<Hunk(1, << <<" ", "Lorem ipsum">>, <<"+", "dolor">> >>)>>,
                  "hg_newfile_diff_1"),
              FileRecord("doc/added", PRE_CREATION, "doc/added", HG_NODE,
                  <<Hunk(0, << <<"+", "added">> >>)>>,
                  "hg_newfile_diff_2") >>]

GitDiffs == {"DEFAULT_GIT_FILEDIFF_DATA", "readme_and_newfile_diff",
             "bar_diff", "bar_baz_diff"}
GitParentDiffs == {"readme_unused_parent_diff", "move_parent_diff",
                   "move_change_parent_diff"}
HgDiffs == {"hg_diff", "hg_newfile_diff"}
HgParentDiffs == {"hg_newfile_parent_diff"}

\* Repository.get_file: the content of path at revision, as lines.
Content(lines) == [ok |-> TRUE, data |-> lines]
FileNotFoundError == [ok |-> FALSE, data |-> <<>>]

Repository_get_file_Empty(path, revision) == Content(<<>>)

Repository_get_file(path, revision) ==
    CASE path = "foo" /\ revision = REV_0 -> Content(<<"Foo">>)
      [] path = "bar" /\ revision = REV_1 -> Content(<<"Foo", "Bar">>)
      [] path = "README" /\ revision = "d6613f4" ->
             Content(<<"readme", "blah..">>)
      [] path = "README" /\ revision = "94bdd3e" ->
             Content(<<"readme", "blah blah">>)
      [] path = "doc/readme" /\ revision \in {HG_BASE, HG_PARENT} ->
             Content(<<"Hello", "", "goodbye">>)
      [] path = "doc/newfile" /\ revision = HG_PARENT ->
             Content(<<"Lorem ipsum">>)
      [] OTHER -> FileNotFoundError

(***************************************************************************)
(* The patch engine: diffutils.patch(diff, file).  The hunks are applied   *)
(* in order; a hunk whose context and removed lines do not match at its    *)
(* place is searched for within PATCH_FUZZ lines of it and fails the patch *)
(* when it is not found.                                                   *)
(***************************************************************************)
PATCH_FUZZ == 2

Texts(lines) == [i \in 1..Len(lines) |-> lines[i][2]]

OldLines(h) == Texts(SelectSeq(h.lines, LAMBDA l : l[1] \in {" ", "-"}))

NewLines(h) == Texts(SelectSeq(h.lines, LAMBDA l : l[1] \in {" ", "+"}))

\* old is found in buf at line pos.
MatchesAt(buf, pos, old) ==
    /\ pos >= 1
    /\ pos - 1 + Len(old) <= Len(buf)
    /\ \A i \in 1..Len(old) : buf[pos - 1 + i] = old[i]

Abs(n) == IF n < 0 THEN -n ELSE n

\* The place nearest to want, within the fuzz, where old is found; 0 if none.
HunkPlace(buf, want, old) ==
    LET places == {q \in (want - PATCH_FUZZ)..(want + PATCH_FUZZ) :
                       MatchesAt(buf, q, old)}
    IN
    IF places = {} THEN 0
    ELSE CHOOSE q \in places :
             \A r \in places :
                 Abs(q - want) < Abs(r - want)
                 \/ (Abs(q - want) = Abs(r - want) /\ q <= r)

Splice(buf, pos, old, new) ==
    SubSeq(buf, 1, pos - 1) \o new \o SubSeq(buf, pos + Len(old), Len(buf))

PatchError == [ok |-> FALSE, data |-> <<>>]

\* A hunk with no original lines inserts after line start.
WantedPlace(h, delta) ==
    IF OldLines(h) = <<>> THEN h.start + 1 + delta ELSE h.start + delta

RECURSIVE apply_hunks(_, _, _)
apply_at(buf, hunks, delta, pos) ==
    IF pos = 0 THEN PatchError
    ELSE apply_hunks(Splice(buf, pos, OldLines(hunks[1]), NewLines(hunks[1])),
                     Tail(hunks),
                     delta + Len(NewLines(hunks[1])) - Len(OldLines(hunks[1])))

apply_hunks(buf, hunks, delta) ==
    IF hunks = <<>> THEN Content(buf)
    ELSE apply_at(buf, hunks, delta,
                  HunkPlace(buf, WantedPlace(hunks[1], delta),
                            OldLines(hunks[1])))

patch(hunks, file) == apply_hunks(file, hunks, 0)

(***************************************************************************)
(* DiffSet.objects.create_from_upload: the parent diff resolver and the    *)
(* file records it stores.                                                 *)
(***************************************************************************)
\* The parent entry of main file f: the one whose modified path is f's
\* original path.  <<>> when there is none.
ParentEntry(f, parent_files) ==
    SelectSeq(parent_files, LAMBDA q : q.newFile = f.origFile)

\* The parent entries kept: those a file of the main diff refers to.
RetainedParents(files, parent_files) ==
    SelectSeq(parent_files,
              LAMBDA q : \E i \in 1..Len(files) : files[i].origFile = q.newFile)

\* The revision the original of f is fetched at.
SourceRevision(f, entry, parent_commit_id) ==
    IF entry # <<>> /\ entry[1].origInfo # UNKNOWN THEN entry[1].origInfo
    ELSE IF parent_commit_id # None /\ f.origInfo # PRE_CREATION
    THEN parent_commit_id
    ELSE f.origInfo

\* The file record stored for main file f.
FileDiff(f, entry, parent_commit_id) ==
    [source_file     |-> f.origFile,
     dest_file       |-> f.newFile,
     source_revision |-> SourceRevision(f, entry, parent_commit_id),
     dest_detail     |-> f.newInfo,
     diff            |-> f.data,
     hunks           |-> f.hunks,
     parent_diff     |-> IF entry = <<>> THEN "" ELSE entry[1].data,
     parent_hunks    |-> IF entry = <<>> THEN <<>> ELSE entry[1].hunks,
     parent_source_file |-> IF entry = <<>> THEN f.origFile
                            ELSE entry[1].origFile]

FileDiffs(files, parent_files, parent_commit_id) ==
    [i \in 1..Len(files) |->
        FileDiff(files[i], ParentEntry(files[i], RetainedParents(files, parent_files)),
                 parent_commit_id)]

NoDiff == [orig_commit_id |-> None, files |-> <<>>]

ParsedOrNone(file) == IF file = None THEN NoDiff ELSE ParsedDiff(file)

\* The get_file_exists calls of an upload: one for each stored file whose
\* original is fetched from the repository, by (basedir, path) and revision.
ExistenceChecks(basedir, fetched) ==
    [i \in 1..Len(fetched) |->
        [basedir  |-> basedir,
         path     |-> fetched[i].parent_source_file,
         revision |-> fetched[i].source_revision]]

create_from_parsed(args, main, parent) ==
    [basedir        |-> args.basedir,
     base_commit_id |-> args.base_commit_id,
     files          |-> FileDiffs(main.files, parent.files,
                                  parent.orig_commit_id)]

DiffSet_create_from_upload(args) ==
    create_from_parsed(args, ParsedDiff(args.diff_file),
                       ParsedOrNone(args.parent_diff_file))

(***************************************************************************)
(* FileDiff content: get_original_file and get_patched_file.               *)
(***************************************************************************)
\* The blob fetcher: PRE_CREATION is the empty file, without a fetch.
FetchesBlob(fd) == fd.source_revision # PRE_CREATION

fetch(fd) ==
    IF FetchesBlob(fd)
    THEN Repository_get_file(fd.parent_source_file, fd.source_revision)
    ELSE Content(<<>>)

patch_if_fetched(blob, hunks) ==
    IF blob.ok THEN patch(hunks, blob.data) ELSE blob

\* Stage one happens only when the parent entry has hunks.
get_original_file(fd) ==
    IF fd.parent_hunks = <<>> THEN fetch(fd)
    ELSE patch_if_fetched(fetch(fd), fd.parent_hunks)

OriginalPatchCalls(fd, blob) ==
    IF fd.parent_hunks # <<>> /\ blob.ok THEN <<"parent_diff">> ELSE <<>>

get_patched_file(fd, original) == patch(fd.hunks, original)

(***************************************************************************)
(* UploadDiffForm.                                                         *)
(***************************************************************************)
SPACE == " "
TAB == "\t"

\* The characters unicode.strip() removes, of those the inputs hold.
WHITESPACE == {SPACE, TAB}

RECURSIVE lstrip(_)
lstrip(v) ==
    IF v # <<>> /\ Head(v) \in WHITESPACE THEN lstrip(Tail(v)) ELSE v

RECURSIVE rstrip(_)
rstrip(v) ==
    IF v # <<>> /\ v[Len(v)] \in WHITESPACE
    THEN rstrip(SubSeq(v, 1, Len(v) - 1))
    ELSE v

strip(v) == lstrip(rstrip(v))

\* scmtool.diffs_use_absolute_paths of the repository's tool.
diffs_use_absolute_paths(repository) == repository.tool = "Mercurial"

UploadDiffForm_fields_NoBasedir(repository) ==
    <<"path", "parent_diff_path", "base_commit_id">>

UploadDiffForm_fields_KeepBasedir(repository) ==
    <<"path", "parent_diff_path", "basedir", "base_commit_id">>

\* __init__: the basedir field is deleted for a tool with absolute paths.
UploadDiffForm_fields(repository) ==
    IF diffs_use_absolute_paths(repository)
    THEN <<"path", "parent_diff_path", "base_commit_id">>
    ELSE <<"path", "parent_diff_path", "basedir", "base_commit_id">>

\* value.strip() or None: <<>> is None, <<v>> a value.
or_None(v) == IF v = <<>> THEN <<>> ELSE <<v>>

clean_base_commit_id_NoStrip(value) == Ok(or_None(value))

clean_base_commit_id(value) == Ok(or_None(strip(value)))

clean_basedir(repository, value) ==
    IF diffs_use_absolute_paths(repository) THEN Ok(<<>>) ELSE Ok(strip(value))

DiffFieldResult(form, name) ==
    CASE name = "path" -> FileField_clean(form.files.path, TRUE)
      [] name = "parent_diff_path" ->
            FileField_clean(form.files.parent_diff_path, FALSE)
      [] name = "basedir" ->
            then_clean(CharField_clean(form.data.basedir, TRUE, -1,
                                       NoValidator),
                       LAMBDA v : clean_basedir(form.repository, v))
      [] name = "base_commit_id" ->
            then_clean(CharField_clean(form.data.base_commit_id, FALSE, -1,
                                       NoValidator),
                       clean_base_commit_id)

UploadDiffForm_full_clean(form) ==
    full_clean_results(
        form,
        [n \in Range(UploadDiffForm_fields(form.repository)) |->
            DiffFieldResult(form, n)],
        Ok(None))

\* dict.get(key, default).
GetOr(d, key, default) == IF key \in DOMAIN d THEN d[key] ELSE default

UploadDiffForm_create_args_NoParent(form) ==
    [repository       |-> form.repository,
     diff_file        |-> form.cleaned_data["path"],
     parent_diff_file |-> None,
     basedir          |-> GetOr(form.cleaned_data, "basedir", <<>>),
     base_commit_id   |-> form.cleaned_data["base_commit_id"]]

\* The arguments UploadDiffForm.create passes to create_from_upload.
UploadDiffForm_create_args(form) ==
    [repository       |-> form.repository,
     diff_file        |-> form.cleaned_data["path"],
     parent_diff_file |-> GetOr(form.cleaned_data, "parent_diff_path", None),
     basedir          |-> GetOr(form.cleaned_data, "basedir", <<>>),
     base_commit_id   |-> form.cleaned_data["base_commit_id"]]

(***************************************************************************)
(* The diff upload flow: a form is bound to submitted data, validated,     *)
(* and creates a DiffSet; the content of its files is then reconstructed.  *)
(***************************************************************************)
TXT_SLASH == <<"/">>
TXT_1234 == <<"1", "2", "3", "4">>

Tools == {"Test", "Mercurial"}

DiffInputs(tool) == IF tool = "Mercurial" THEN HgDiffs ELSE GitDiffs

ParentDiffInputs(tool) ==
    IF tool = "Mercurial" THEN HgParentDiffs ELSE GitParentDiffs

BasedirInputs ==
    {TXT_SLASH, <<SPACE>> \o TXT_SLASH \o <<SPACE>>, <<TAB>> \o TXT_SLASH,
     <<>>}

BaseCommitIdInputs ==
    {TXT_1234, <<SPACE>> \o TXT_1234 \o <<SPACE>>, TXT_1234 \o <<TAB>>,
     <<SPACE>>, <<>>}

DiffInit == CommitIdle /\ DiffIdle /\ GitHubIdle

\* form = UploadDiffForm(repository=..., data=..., files=...)
NewUploadDiffForm ==
    /\ dform.pc = "unbound"
    /\ \E tool \in Tools :
       \E path \in DiffInputs(tool) \cup {None} :
       \E parent_diff_path \in ParentDiffInputs(tool) \cup {None} :
       \E basedir \in BasedirInputs :
       \E base_commit_id \in BaseCommitIdInputs :
          dform' = [UnboundDiffForm EXCEPT
                      !.pc = "bound",
                      !.repository = [tool |-> tool],
                      !.data = [basedir |-> basedir,
                                base_commit_id |-> base_commit_id],
                      !.files = [path |-> path,
                                 parent_diff_path |-> parent_diff_path]]
    /\ UNCHANGED <<githubVars, diffset, cform, upload, calls, view>>

\* form.is_valid(): the first call runs full_clean.
DiffIsValid ==
    /\ dform.pc = "bound"
    /\ dform' = UploadDiffForm_full_clean(dform)
    /\ UNCHANGED <<githubVars, diffset, cform, upload, calls, view>>

UploadDiffForm_is_valid_Unchecked(form) == TRUE

UploadDiffForm_is_valid(form) == form.errors = {}

Fetched(ds) == SelectSeq(ds.files, FetchesBlob)

CreatedUpload(ds) ==
    /\ upload' = <<ds>>
    /\ calls' = [calls EXCEPT !.exists = ExistenceChecks(ds.basedir, Fetched(ds))]

\* The keys create() reads as cleaned_data[key]: a KeyError when absent.
SubscriptedKeys == {"path", "base_commit_id"}

\* form.create() on a valid form.
DiffCreate ==
    /\ dform.pc = "validated"
    /\ UploadDiffForm_is_valid(dform)
    /\ IF SubscriptedKeys \subseteq DOMAIN dform.cleaned_data
       THEN /\ dform' = [dform EXCEPT !.pc = "created"]
            /\ CreatedUpload(DiffSet_create_from_upload(
                                 UploadDiffForm_create_args(dform)))
       ELSE /\ dform' = [dform EXCEPT !.pc = "failed", !.raised = TRUE]
            /\ UNCHANGED <<upload, calls>>
    /\ UNCHANGED <<githubVars, diffset, cform, view>>

\* form.create() on an invalid form: assert self.is_valid() fails.
DiffCreateAssertionError ==
    /\ dform.pc = "validated"
    /\ ~UploadDiffForm_is_valid(dform)
    /\ dform' = [dform EXCEPT !.pc = "failed", !.raised = TRUE]
    /\ UNCHANGED <<githubVars, diffset, cform, upload, calls, view>>

FetchCalls(fd) ==
    IF FetchesBlob(fd)
    THEN <<[path |-> fd.parent_source_file, revision |-> fd.source_revision]>>
    ELSE <<>>

OriginalFetched(i, fd, blob) ==
    /\ view' = [pc |-> "original", file |-> i, original |-> blob,
                patched |-> NoContent]
    /\ calls' = [calls EXCEPT
                   !.get_file = FetchCalls(fd),
                   !.patch = OriginalPatchCalls(fd, fetch(fd))]

\* get_original_file(filediff) for a file of the created DiffSet.
GetOriginalFile ==
    /\ dform.pc = "created"
    /\ view.pc = "none"
    /\ \E i \in 1..Len(upload[1].files) :
          OriginalFetched(i, upload[1].files[i],
                          get_original_file(upload[1].files[i]))
    /\ UNCHANGED <<githubVars, diffset, cform, dform, upload>>

\* get_patched_file(orig, filediff) with the original just returned.
GetPatchedFile ==
    /\ view.pc = "original"
    /\ view.original.ok
    /\ view' = [view EXCEPT
                  !.pc = "patched",
                  !.patched = get_patched_file(upload[1].files[view.file],
                                               view.original.data)]
    /\ calls' = [calls EXCEPT !.patch = Append(@, "diff")]
    /\ UNCHANGED <<githubVars, diffset, cform, dform, upload>>

\* The request is over: the next upload starts from a new form.
DiffRequestEnds ==
    /\ dform.pc \in {"created", "failed"}
    /\ dform' = UnboundDiffForm
    /\ upload' = <<>>
    /\ calls' = NoCalls
    /\ view' = NoView
    /\ UNCHANGED <<githubVars, diffset, cform>>

DiffNext ==
    \/ NewUploadDiffForm
    \/ DiffIsValid
    \/ DiffCreate
    \/ DiffCreateAssertionError
    \/ GetOriginalFile
    \/ GetPatchedFile
    \/ DiffRequestEnds

SpecDiff == DiffInit /\ [][DiffNext]_vars

(***************************************************************************)
(* Properties of the diff upload flow.                                     *)
(***************************************************************************)
DiffCreated == dform.pc = "created"

WithParentDiff == dform.files.parent_diff_path # None

Uploaded(path, parent_diff_path) ==
    /\ DiffCreated
    /\ dform.files.path = path
    /\ dform.files.parent_diff_path = parent_diff_path

\* The parsed entries of the files submitted with the form.
MainFiles == ParsedDiff(dform.files.path).files

ParentFiles == ParsedDiff(dform.files.parent_diff_path).files

Indices(seq) == 1..Len(seq)

\* Parent entry q is the one main entry f refers to.
Refers(f, q) == q.newFile = f.origFile

Referenced(q) == \E i \in Indices(MainFiles) : Refers(MainFiles[i], q)

HasParentEntry(f) == \E k \in Indices(ParentFiles) : Refers(f, ParentFiles[k])

\* Every existence check is for the original of a main-diff file: under its
\* own path or under the original path of the parent entry it refers to.
ChecksOnlyMainFiles ==
    \A c \in Range(calls.exists) :
        \E i \in Indices(MainFiles) :
            \/ c.path = MainFiles[i].origFile
            \/ \E k \in Indices(ParentFiles) :
                  /\ Refers(MainFiles[i], ParentFiles[k])
                  /\ c.path = ParentFiles[k].origFile
                  /\ c.revision \in {ParentFiles[k].origInfo,
                                     MainFiles[i].origInfo}

\* No check is made for a parent entry no main-diff file refers to.
UnreferencedDropped ==
    \A k \in Indices(ParentFiles) :
        ~Referenced(ParentFiles[k]) =>
            \A c \in Range(calls.exists) :
                ~(c.path = ParentFiles[k].origFile
                  /\ c.revision = ParentFiles[k].origInfo)

\* Each stored record carries the parent section of its own path, or none.
OwnParentSection ==
    /\ Len(upload[1].files) = Len(MainFiles)
    /\ \A i \in Indices(MainFiles) :
          \/ /\ ~HasParentEntry(MainFiles[i])
             /\ upload[1].files[i].parent_diff = ""
          \/ \E k \in Indices(ParentFiles) :
                /\ Refers(MainFiles[i], ParentFiles[k])
                /\ upload[1].files[i].parent_diff = ParentFiles[k].data

NotNewFiles == SelectSeq(upload[1].files,
                         LAMBDA d : d.source_revision # PRE_CREATION)

\* The upload of test_create_filters_parent_diffs.
FiltersParentDiffs ==
    Uploaded("DEFAULT_GIT_FILEDIFF_DATA", "readme_unused_parent_diff") =>
        /\ Len(calls.exists) = 1
        /\ calls.exists[1].path = "README"
        /\ calls.exists[1].revision = "d6613f4"
        /\ calls.exists[1].basedir = strip(dform.data.basedir)
        /\ upload[1].files[1].parent_diff = "parent_diff_1"

Viewed == upload[1].files[view.file]

\* C7: for a file whose parent entry has hunks, get_original_file returns
\* the fetched blob with the parent hunks applied and get_patched_file that
\* result with the main hunks applied, with two patch calls in all, the
\* parent hunks first: Foo, then Foo Bar, then Foo Bar Baz.
C7_TwoStageReconstruction ==
    /\ (view.pc # "none" /\ Viewed.parent_hunks # <<>> /\ view.original.ok) =>
          /\ view.pc = "original" => calls.patch = <<"parent_diff">>
          /\ view.pc = "patched" => calls.patch = <<"parent_diff", "diff">>
    /\ Uploaded("bar_baz_diff", "move_change_parent_diff") =>
          /\ view.pc # "none" =>
                /\ calls.get_file = <<[path |-> "foo", revision |-> REV_0]>>
                /\ view.original = Content(<<"Foo", "Bar">>)
          /\ view.pc = "patched" =>
                view.patched = Content(<<"Foo", "Bar", "Baz">>)

C7_Witness ==
    /\ Uploaded("bar_baz_diff", "move_change_parent_diff")
    /\ view.pc = "patched"
    /\ calls.patch = <<"parent_diff", "diff">>

\* C8: for a file whose parent entry is a pure rename without hunks,
\* get_original_file returns the fetched blob unchanged with no patch call,
\* and get_patched_file then makes exactly one patch call, for the main
\* hunks, and returns the blob with them applied.
C8_PureRenameSkipsStageOne ==
    /\ (view.pc # "none" /\ Viewed.parent_diff # ""
        /\ Viewed.parent_hunks = <<>>) =>
          /\ view.pc = "original" => calls.patch = <<>>
          /\ view.pc = "patched" => calls.patch = <<"diff">>
    /\ Uploaded("bar_diff", "move_parent_diff") =>
          /\ view.pc # "none" =>
                /\ calls.get_file = <<[path |-> "foo", revision |-> REV_0]>>
                /\ view.original = Content(<<"Foo">>)
          /\ view.pc = "patched" => view.patched = Content(<<"Foo", "Bar">>)

C8_Witness ==
    /\ Uploaded("bar_diff", "move_parent_diff")
    /\ view.pc = "patched"
    /\ calls.patch = <<"diff">>

\* The parent entry main entry f refers to has hunks / has a revision.
EntryWithHunks(f, q) == Refers(f, q) /\ q.hunks # <<>>

EntryWithoutRevision(f) ==
    \E k \in Indices(ParentFiles) :
        Refers(f, ParentFiles[k]) /\ ParentFiles[k].origInfo = UNKNOWN

\* The base revision the parent diff embeds in its metadata, None if none.
EmbeddedBase == ParsedDiff(dform.files.parent_diff_path).orig_commit_id

\* The record of entry f takes its source revision from its parent entry
\* when that entry has hunks.
FromParentEntry(f, d) ==
    \A k \in Indices(ParentFiles) :
        EntryWithHunks(f, ParentFiles[k]) =>
            d.source_revision = ParentFiles[k].origInfo

\* The source and destination revisions the tests of the form expect.
TestRevisions ==
    /\ Uploaded("bar_baz_diff", "move_change_parent_diff") =>
          /\ upload[1].files[1].source_revision = REV_0
          /\ upload[1].files[1].dest_detail = REV_2
    /\ Uploaded("bar_diff", "move_parent_diff") =>
          /\ upload[1].files[1].source_revision = REV_0
          /\ upload[1].files[1].dest_detail = REV_1
    /\ Uploaded("hg_diff", "hg_newfile_parent_diff") =>
          /\ upload[1].files[1].source_revision = HG_BASE
          /\ upload[1].files[1].dest_detail = HG_NODE

\* C9 (as stated): a record's source_revision is its parent entry's
\* original revision when that entry has hunks, and the main entry's own
\* original revision when there is no parent entry or the entry carries no
\* revision; its destination revision is the main entry's modified revision.
C9_SourceRevisionByParent ==
    (DiffCreated /\ WithParentDiff) =>
        \A i \in Indices(MainFiles) :
            /\ FromParentEntry(MainFiles[i], upload[1].files[i])
            /\ (~HasParentEntry(MainFiles[i])
                \/ EntryWithoutRevision(MainFiles[i])) =>
                  upload[1].files[i].source_revision = MainFiles[i].origInfo
            /\ upload[1].files[i].dest_detail = MainFiles[i].newInfo

\* The revision of entry f when no parent entry decides it: the base
\* revision the parent diff embeds, unless there is none or f is a new file.
OwnOrEmbedded(f) ==
    IF EmbeddedBase # None /\ f.origInfo # PRE_CREATION
    THEN EmbeddedBase
    ELSE f.origInfo

\* C9 (amended): a record's source_revision is its parent entry's original
\* revision when that entry has hunks; when there is no parent entry or the
\* entry carries no revision, it is the base revision embedded in the
\* parent diff's metadata if there is one and the main entry is not a new
\* file, and the main entry's own original revision otherwise; its
\* destination revision is the main entry's modified revision.
C9_SourceRevisionByParentOrBase ==
    /\ (DiffCreated /\ WithParentDiff) =>
          \A i \in Indices(MainFiles) :
              /\ FromParentEntry(MainFiles[i], upload[1].files[i])
              /\ (~HasParentEntry(MainFiles[i])
                  \/ EntryWithoutRevision(MainFiles[i])) =>
                    upload[1].files[i].source_revision
                        = OwnOrEmbedded(MainFiles[i])
              /\ upload[1].files[i].dest_detail = MainFiles[i].newInfo
    /\ TestRevisions

C9_Witness ==
    /\ Uploaded("hg_diff", "hg_newfile_parent_diff")
    /\ upload[1].files[1].source_revision = HG_BASE
    /\ MainFiles[1].origInfo = HG_PARENT

EmbedsBase == DiffCreated /\ WithParentDiff /\ EmbeddedBase # None

\* C10 (as stated): when the parent diff embeds a base revision, every
\* record's source_revision is that base revision, whatever the per-file
\* revision and the base_commit_id submitted.
C10_EmbeddedBaseOverridesAll ==
    EmbedsBase =>
        \A i \in Indices(upload[1].files) :
            upload[1].files[i].source_revision = EmbeddedBase

\* C10 (amended): when the parent diff embeds a base revision, the
\* source_revision of every record whose main entry is not a new file and
\* has no parent entry is that base revision, whatever the per-file
\* revision and the base_commit_id submitted, also when the parent diff
\* touches unrelated files only; a new file, and a file the parent diff
\* adds, keep PRE_CREATION.
C10_EmbeddedBaseOverridesExisting ==
    /\ EmbedsBase =>
          \A i \in Indices(MainFiles) :
              /\ (MainFiles[i].origInfo # PRE_CREATION
                  /\ ~HasParentEntry(MainFiles[i])) =>
                    /\ upload[1].files[i].source_revision = EmbeddedBase
                    /\ upload[1].files[i].source_revision
                           # MainFiles[i].origInfo
              /\ MainFiles[i].origInfo = PRE_CREATION =>
                    upload[1].files[i].source_revision = PRE_CREATION
              /\ (\E k \in Indices(ParentFiles) :
                     /\ Refers(MainFiles[i], ParentFiles[k])
                     /\ ParentFiles[k].origInfo = PRE_CREATION) =>
                    upload[1].files[i].source_revision = PRE_CREATION
    /\ \A b \in BaseCommitIdInputs :
          (Uploaded("hg_diff", "hg_newfile_parent_diff")
           /\ dform.data.base_commit_id = b) =>
              /\ upload[1].base_commit_id = or_None(strip(b))
              /\ upload[1].files[1].source_revision = HG_BASE

C10_Witness ==
    /\ Uploaded("hg_diff", "hg_newfile_parent_diff")
    /\ upload[1].base_commit_id = <<TXT_1234>>
    /\ upload[1].files[1].source_revision = HG_BASE
    /\ ~HasParentEntry(MainFiles[1])

DiffFormValidated == dform.pc \in {"validated", "created", "failed"}

DiffErrorFields == {e[1] : e \in dform.errors}

AbsolutePaths == diffs_use_absolute_paths(dform.repository)

\* C11: with a tool whose diffs use absolute paths the form has no basedir
\* field, it is valid exactly when a diff file was submitted, whatever the
\* basedir submitted, and create() passes the empty string as basedir.
C11_AbsolutePathsIgnoreBasedir ==
    (DiffFormValidated /\ AbsolutePaths) =>
        /\ "basedir" \notin DiffErrorFields
        /\ "basedir" \notin DOMAIN dform.cleaned_data
        /\ UploadDiffForm_is_valid(dform) <=> dform.files.path # None
        /\ DiffCreated =>
              /\ UploadDiffForm_create_args(dform).basedir = <<>>
              /\ upload[1].basedir = <<>>

C11_Witness ==
    /\ DiffCreated
    /\ AbsolutePaths
    /\ dform.data.basedir = TXT_SLASH
    /\ upload[1].basedir = <<>>

\* C12: where the basedir field is required, a form submitted with a diff
\* file and no basedir is invalid, its errors for basedir hold "This field
\* is required.", and no DiffSet is created.
C12_MissingBasedirRejected ==
    (/\ DiffFormValidated
     /\ ~AbsolutePaths
     /\ dform.files.path # None
     /\ dform.data.basedir = <<>>) =>
        /\ <<"basedir", REQUIRED_MSG>> \in dform.errors
        /\ ~UploadDiffForm_is_valid(dform)
        /\ ~DiffCreated
        /\ upload = <<>>
        /\ calls = NoCalls

C12_Witness ==
    /\ dform.pc = "failed"
    /\ dform.files.path = "bar_diff"
    /\ dform.errors = {<<"basedir", REQUIRED_MSG>>}

\* v has no whitespace at either end.
Stripped(v) ==
    v = <<>> \/ (Head(v) \notin WHITESPACE /\ v[Len(v)] \notin WHITESPACE)

\* v is what is left of w when whitespace is taken from its ends.
StrippedOf(v, w) ==
    /\ Stripped(v)
    /\ \E a \in 0..Len(w) : \E b \in 0..Len(w) :
          /\ a + Len(v) + b = Len(w)
          /\ \A i \in 1..a : w[i] \in WHITESPACE
          /\ \A i \in 1..Len(v) : w[a + i] = v[i]
          /\ \A i \in 1..b : w[a + Len(v) + i] \in WHITESPACE

\* C13: the created DiffSet carries base_commit_id stripped, None when that
\* is empty, and basedir stripped; "/" and "1234" are kept as given, and
\* normalising a normalised value changes nothing.
C13_TextInputsNormalised ==
    DiffCreated =>
        /\ IF upload[1].base_commit_id = <<>>
           THEN StrippedOf(<<>>, dform.data.base_commit_id)
           ELSE /\ upload[1].base_commit_id[1] # <<>>
                /\ StrippedOf(upload[1].base_commit_id[1],
                              dform.data.base_commit_id)
        /\ ~AbsolutePaths => StrippedOf(upload[1].basedir, dform.data.basedir)
        /\ dform.data.base_commit_id = TXT_1234 =>
              upload[1].base_commit_id = <<TXT_1234>>
        /\ (~AbsolutePaths /\ dform.data.basedir = TXT_SLASH) =>
              upload[1].basedir = TXT_SLASH
        /\ strip(upload[1].basedir) = upload[1].basedir
        /\ upload[1].base_commit_id # <<>> =>
              clean_base_commit_id(upload[1].base_commit_id[1]).value
                  = upload[1].base_commit_id

C13_Witness ==
    /\ DiffCreated
    /\ dform.data.base_commit_id = <<SPACE>> \o TXT_1234 \o <<SPACE>>
    /\ upload[1].base_commit_id = <<TXT_1234>>
    /\ dform.data.basedir = <<SPACE>> \o TXT_SLASH \o <<SPACE>>
    /\ upload[1].basedir = TXT_SLASH

(***************************************************************************)
(* The GitHub hosting service.  Text is a sequence of tokens; a URL is the *)
(* text the client builds.  The remote side is one repository with four    *)
(* commits, and any request may fail.                                      *)
(***************************************************************************)
API_URL == "https://api.github.com/"
REPO_API_URL == "https://api.github.com/repos/owner/repo"
TOKEN == "abc123"

\* '/'.join(api_paths), each path a text.
RECURSIVE JoinPaths(_)
JoinPaths(api_paths) ==
    IF Len(api_paths) = 1 THEN api_paths[1]
    ELSE api_paths[1] \o <<"/">> \o JoinPaths(Tail(api_paths))

Contains(text, token) == \E i \in 1..Len(text) : text[i] = token

with_access_token(url) ==
    url \o <<IF Contains(url, "?") THEN "&" ELSE "?">>
        \o <<"access_token=", TOKEN>>

_build_api_url(api_paths) == with_access_token(JoinPaths(api_paths))

\* Blob SHAs, tree SHAs and commit SHAs of the remote repository.
BLOB_README_0 == "b-readme-0"
BLOB_README_1 == "b-readme-1"
BLOB_OLD == "b-old"
BLOB_NEW == "b-new"
BLOB_MOVED == "b-moved"
BLOB_LOGO == "b-logo"
BLOB_LOGO_1 == "b-logo-1"
BLOB_MISSING == "b-missing"
TREE_0 == "t-0"
TREE_1 == "t-1"
TREE_2 == "t-2"
TREE_3 == "t-3"
COMMIT_0 == "c-0"
COMMIT_1 == "c-1"
COMMIT_2 == "c-2"
COMMIT_3 == "c-3"

Blobs == {BLOB_README_0, BLOB_README_1, BLOB_OLD, BLOB_NEW, BLOB_MOVED,
          BLOB_LOGO, BLOB_LOGO_1}

\* urllib2 errors: an HTTPError has a code, a body that is or is not JSON
\* with a 'message', and may carry the X-GitHub-OTP 'required;' header.
HTTPError(code, message, otp) ==
    [type |-> "HTTPError", code |-> code, message |-> message, otp |-> otp]

URLError == [type |-> "URLError", code |-> 0, message |-> FALSE, otp |-> FALSE]

HTTPCodes == {401, 404, 500}

Errors ==
    {HTTPError(c, m, o) : c \in HTTPCodes, m \in BOOLEAN, o \in BOOLEAN}
    \cup {URLError}

NotFound == HTTPError(404, TRUE, FALSE)

\* What a request gives: data, or an error raised.
Data(d) == [ok |-> TRUE, data |-> <<d>>]
Raises(e) == [ok |-> FALSE, error |-> e]

\* A fault: the request with this number fails with this error.
NoFault == [at |-> 0, error |-> URLError]

Faults(n) == {NoFault} \cup {[at |-> k, error |-> e] : k \in 1..n, e \in Errors}

\* The commits of the remote repository, oldest first, as the API lists
\* them: COMMIT_0 has no parent.
ZEROS_40 == "0000000000000000000000000000000000000000"

Commits == {COMMIT_0, COMMIT_1, COMMIT_2, COMMIT_3}

ParentsOf(sha) ==
    CASE sha = COMMIT_0 -> <<>>
      [] sha = COMMIT_1 -> <<[sha |-> COMMIT_0]>>
      [] sha = COMMIT_2 -> <<[sha |-> COMMIT_1]>>
      [] sha = COMMIT_3 -> <<[sha |-> COMMIT_2]>>

TreeOf(sha) ==
    CASE sha = COMMIT_0 -> TREE_0
      [] sha = COMMIT_1 -> TREE_1
      [] sha = COMMIT_2 -> TREE_2
      [] sha = COMMIT_3 -> TREE_3

AuthorOf(sha) == IF sha = COMMIT_1 THEN "bob" ELSE "alice"

DateOf(sha) ==
    CASE sha = COMMIT_0 -> "2013-06-25T23:31:22Z"
      [] sha = COMMIT_1 -> "2013-06-26T10:00:00Z"
      [] sha = COMMIT_2 -> "2013-06-27T08:15:00Z"
      [] sha = COMMIT_3 -> "2013-06-28T09:30:00Z"

MessageOf(sha) ==
    CASE sha = COMMIT_0 -> "Initial commit"
      [] sha = COMMIT_1 -> "Change README, add NEW, remove OLD"
      [] sha = COMMIT_2 -> "Move NEW"
      [] sha = COMMIT_3 -> "New logo"

\* One item of the commits API.
CommitItem(sha) ==
    [sha |-> sha,
     commit |-> [author |-> [name |-> AuthorOf(sha)],
                 committer |-> [date |-> DateOf(sha)],
                 message |-> MessageOf(sha),
                 tree |-> [sha |-> TreeOf(sha)]],
     parents |-> ParentsOf(sha)]

\* The list the commits API gives from a start commit back to the root.
RECURSIVE History(_)
History(sha) ==
    IF ParentsOf(sha) = <<>> THEN <<CommitItem(sha)>>
    ELSE <<CommitItem(sha)>> \o History(ParentsOf(sha)[1].sha)

\* A changed file; 'patch' is absent (<<>>) for a binary file.
ChangedFile(filename, status, sha, the_patch) ==
    [filename |-> filename, status |-> status, sha |-> sha,
     patch |-> the_patch]

PATCH_README == <<"@@ -1 +1 @@", "\n", "-Hello", "\n", "+Hello, world">>
PATCH_ADD == <<"@@ -0,0 +1 @@", "\n", "+new">>
PATCH_DEL == <<"@@ -1 +0,0 @@", "\n", "-old">>
PATCH_MOVE == <<"@@ -1 +1 @@", "\n", "-new", "\n", "+moved", "\n">>

\* The files a commit changes against its parent.
FilesOf(sha) ==
    CASE sha = COMMIT_0 ->
           <<ChangedFile("README", "added", BLOB_README_0, <<PATCH_ADD>>),
             ChangedFile("OLD", "added", BLOB_OLD, <<PATCH_ADD>>)>>
      [] sha = COMMIT_1 ->
           <<ChangedFile("README", "modified", BLOB_README_1,
                         <<PATCH_README>>),
             ChangedFile("logo.png", "added", BLOB_LOGO, <<>>),
             ChangedFile("NEW", "added", BLOB_NEW, <<PATCH_ADD>>),
             ChangedFile("OLD", "removed", BLOB_OLD, <<PATCH_DEL>>)>>
      [] sha = COMMIT_2 ->
           <<ChangedFile("MOVED", "renamed", BLOB_MOVED, <<PATCH_MOVE>>)>>
      [] sha = COMMIT_3 ->
           <<ChangedFile("logo.png", "modified", BLOB_LOGO_1, <<>>)>>

TreeEntry(path, sha) == [path |-> path, sha |-> sha]

TreeEntries(sha) ==
    CASE sha = TREE_0 ->
           <<TreeEntry("README", BLOB_README_0), TreeEntry("OLD", BLOB_OLD)>>
      [] sha = TREE_1 ->
           <<TreeEntry("README", BLOB_README_1),
             TreeEntry("logo.png", BLOB_LOGO), TreeEntry("NEW", BLOB_NEW)>>
      [] sha = TREE_2 ->
           <<TreeEntry("README", BLOB_README_1),
             TreeEntry("logo.png", BLOB_LOGO),
             TreeEntry("MOVED", BLOB_MOVED)>>
      [] sha = TREE_3 ->
           <<TreeEntry("README", BLOB_README_1),
             TreeEntry("logo.png", BLOB_LOGO_1),
             TreeEntry("MOVED", BLOB_MOVED)>>

Trees == {TREE_0, TREE_1, TREE_2, TREE_3}

\* The one repository the account can see.
RemoteRepositoryData ==
    [name |-> "repo", owner |-> [login |-> "owner"],
     clone_url |-> "https://github.com/owner/repo.git",
     mirror_url |-> None]

\* The remote side: what an untroubled GET of a URL gives.  A tree listing
\* is cut after its first entry when the API truncates it.
Remote(url, truncated) ==
    IF Len(url) >= 5 /\ url[1] = API_URL /\ url[2] = "repos/"
    THEN IF url[3] = "owner" /\ url[4] = "/" /\ url[5] = "repo"
                /\ Len(url) >= 6 /\ url[6] = "?"
         THEN Data(RemoteRepositoryData)
         ELSE Raises(NotFound)
    ELSE IF Len(url) < 4 \/ url[1] # REPO_API_URL \/ url[2] # "/"
    THEN Raises(NotFound)
    ELSE CASE url[3] = "git/blobs/" ->
                IF url[4] \in Blobs THEN Data(<<"content of ", url[4]>>)
                ELSE Raises(NotFound)
           [] url[3] = "commits" ->
                IF Len(url) >= 8 /\ url[7] = "&sha="
                THEN IF url[8] \in Commits THEN Data(History(url[8]))
                     ELSE Raises(NotFound)
                ELSE Data(History(COMMIT_3))
           [] url[3] = "commits/" ->
                IF url[4] \in Commits
                THEN Data([sha |-> url[4],
                           commit |-> CommitItem(url[4]).commit,
                           parents |-> ParentsOf(url[4]),
                           files |-> FilesOf(url[4])])
                ELSE Raises(NotFound)
           [] url[3] = "compare/" ->
                IF /\ Len(url) >= 6
                   /\ url[6] \in Commits
                   /\ ParentsOf(url[6]) # <<>>
                   /\ ParentsOf(url[6])[1].sha = url[4]
                THEN Data([base_commit |-> CommitItem(url[4]),
                           files |-> FilesOf(url[6])])
                ELSE Raises(NotFound)
           [] url[3] = "git/trees/" ->
                IF url[4] \in Trees
                THEN Data([sha |-> url[4],
                           tree |-> IF truncated
                                    THEN SubSeq(TreeEntries(url[4]), 1, 1)
                                    ELSE TreeEntries(url[4])])
                ELSE Raises(NotFound)
           [] OTHER -> Raises(NotFound)

\* The surroundings of one call: which request fails, and whether tree
\* listings are truncated.
Env(fault, truncated) == [fault |-> fault, truncated |-> truncated]

\* http_get / json_get of request number k of a call.
http_get(url, k, env) ==
    IF env.fault.at = k THEN Raises(env.fault.error)
    ELSE Remote(url, env.truncated)

\* Exceptions the client and the service raise.
Exception(type, http_code, args) ==
    [type |-> type, http_code |-> http_code, args |-> args]

\* FileNotFoundError(path, revision).
FileNotFound(path, revision) ==
    Exception("FileNotFoundError", 0, <<path, revision>>)

SCMError == Exception("SCMError", 0, <<>>)
IndexError == Exception("IndexError", 0, <<>>)
KeyError == Exception("KeyError", 0, <<>>)
AttributeError == Exception("AttributeError", 0, <<>>)
ObjectDoesNotExist == Exception("ObjectDoesNotExist", 0, <<>>)

\* AuthorizationError and TwoFactorAuthCodeRequiredError are
\* HostingServiceErrors.
HostingServiceErrors ==
    {"HostingServiceError", "AuthorizationError",
     "TwoFactorAuthCodeRequiredError"}

\* GitHubClient._check_api_error: a URLError has no read().
_check_api_error(e) ==
    IF e.type = "URLError" THEN AttributeError
    ELSE IF e.message
    THEN IF e.otp
         THEN Exception("TwoFactorAuthCodeRequiredError", e.code, <<>>)
         ELSE IF e.code = 401
         THEN Exception("AuthorizationError", e.code, <<>>)
         ELSE Exception("HostingServiceError", e.code, <<>>)
    ELSE Exception("HostingServiceError", e.code, <<>>)

api_get_response(r) == IF r.ok THEN r ELSE Raises(_check_api_error(r.error))

\* GitHubClient.api_get
api_get(url, k, env) == api_get_response(http_get(url, k, env))

\* What a step of a call leaves: the requests made so far and either the
\* value it has or the exception it raised.
Step(requests, r) ==
    [requests |-> requests, ok |-> r.ok,
     data |-> IF r.ok THEN r.data ELSE <<>>,
     error |-> IF r.ok THEN <<>> ELSE <<r.error>>]

blob_url(repo_api_url, sha) ==
    _build_api_url(<< <<repo_api_url>>, <<"git/blobs/", sha>> >>)

blob_response_Reraise(path, sha, r) == r

blob_response(path, sha, r) ==
    IF r.ok THEN r ELSE Raises(FileNotFound(path, sha))

\* GitHubClient.api_get_blob
api_get_blob(repo_api_url, path, sha, env) ==
    Step(<<blob_url(repo_api_url, sha)>>,
         blob_response(path, sha, http_get(blob_url(repo_api_url, sha), 1, env)))

Returned(op, args, requests, value) ==
    [op |-> op, args |-> args, requests |-> requests, result |-> <<value>>,
     raised |-> <<>>]

Raised(op, args, requests, error) ==
    [op |-> op, args |-> args, requests |-> requests, result |-> <<>>,
     raised |-> <<error>>]

Outcome(op, args, s) ==
    IF s.ok THEN Returned(op, args, s.requests, s.data[1])
    ELSE Raised(op, args, s.requests, s.error[1])

get_file_outcome(args, blob) == Outcome("get_file", args, blob)

\* GitHub.get_file
get_file(args) ==
    get_file_outcome(args,
        api_get_blob(REPO_API_URL, args.path, args.revision, args.env))

get_file_exists_outcome(args, blob) ==
    IF blob.ok
    THEN Returned("get_file_exists", args, blob.requests, TRUE)
    ELSE IF blob.error[1].type = "FileNotFoundError"
    THEN Returned("get_file_exists", args, blob.requests, FALSE)
    ELSE Raised("get_file_exists", args, blob.requests, blob.error[1])

\* GitHub.get_file_exists
get_file_exists(args) ==
    get_file_exists_outcome(args,
        api_get_blob(REPO_API_URL, args.path, args.revision, args.env))

BlobPaths == {"README", "NEW"}
BlobRevisions == {BLOB_README_0, BLOB_NEW, BLOB_MISSING}

BlobArgs(path, revision, env) ==
    [path |-> path, revision |-> revision, env |-> env]

Envs(n) == {Env(f, t) : f \in Faults(n), t \in BOOLEAN}

GetFile ==
    /\ \E path \in BlobPaths, revision \in BlobRevisions,
          fault \in Faults(1) :
          gh' = get_file(BlobArgs(path, revision, Env(fault, FALSE)))
    /\ UNCHANGED <<cache, diffset, cform, diffVars>>

GetFileExists ==
    /\ \E path \in BlobPaths, revision \in BlobRevisions,
          fault \in Faults(1) :
          gh' = get_file_exists(BlobArgs(path, revision, Env(fault, FALSE)))
    /\ UNCHANGED <<cache, diffset, cform, diffVars>>

\* Python truth of a text or None.
Truthy(text) == text \notin {None, ""}

\* A date is the text the API gave, or a 1-tuple holding it.
Str(value) == [tuple |-> FALSE, value |-> value]
Tuple1(value) == [tuple |-> TRUE, value |-> value]

\* scmtools.core.Commit; parent defaults to '' and diff to None.
Commit(author_name, id, date, message, parent, diff) ==
    [author_name |-> author_name, id |-> id, date |-> date,
     message |-> message, parent |-> parent, diff |-> diff]

\* A step that follows another in the same call.
Then(s, t) == [t EXCEPT !.requests = s.requests \o t.requests]

commits_url(repo_api_url, start) ==
    _build_api_url(<< <<repo_api_url>>, <<"commits">> >>)
        \o (IF Truthy(start) THEN <<"&sha=", start>> ELSE <<>>)

\* except Exception: raise SCMError
scm_response(r) == IF r.ok THEN r ELSE Raises(SCMError)

\* GitHubClient.api_get_commits, as request number k of the call.
api_get_commits(repo_api_url, start, k, env) ==
    Step(<<commits_url(repo_api_url, start)>>,
         scm_response(api_get(commits_url(repo_api_url, start), k, env)))

compare_url(repo_api_url, parent_revision, revision) ==
    IF Truthy(parent_revision)
    THEN _build_api_url(<< <<repo_api_url>>,
                           <<"compare/", parent_revision, "...", revision>> >>)
    ELSE _build_api_url(<< <<repo_api_url>>, <<"commits/", revision>> >>)

compare_response(parent_revision, r) ==
    IF ~r.ok THEN Raises(SCMError)
    ELSE Data([files |-> r.data[1].files,
               tree_sha |-> IF Truthy(parent_revision)
                            THEN r.data[1].base_commit.commit.tree.sha
                            ELSE r.data[1].commit.tree.sha])

\* GitHubClient.api_get_compare_commits
api_get_compare_commits(repo_api_url, parent_revision, revision, k, env) ==
    Step(<<compare_url(repo_api_url, parent_revision, revision)>>,
         compare_response(
             parent_revision,
             api_get(compare_url(repo_api_url, parent_revision, revision),
                     k, env)))

tree_url(repo_api_url, sha, recursive) ==
    _build_api_url(<< <<repo_api_url>>, <<"git/trees/", sha>> >>)
        \o (IF recursive THEN <<"&recursive=1">> ELSE <<>>)

\* GitHubClient.api_get_tree
api_get_tree(repo_api_url, sha, recursive, k, env) ==
    Step(<<tree_url(repo_api_url, sha, recursive)>>,
         scm_response(api_get(tree_url(repo_api_url, sha, recursive), k, env)))

\* The Commit that get_commits makes of one item.
item_commit(item) ==
    Commit(item.commit.author.name, item.sha, Str(item.commit.committer.date),
           item.commit.message,
           IF item.parents # <<>> THEN item.parents[1].sha ELSE "",
           <<>>)

get_commits_results(s) ==
    IF ~s.ok THEN s
    ELSE [s EXCEPT !.data =
              <<[i \in 1..Len(s.data[1]) |-> item_commit(s.data[1][i])]>>]

\* GitHub.get_commits
get_commits(start, env) ==
    get_commits_results(api_get_commits(REPO_API_URL, start, 1, env))

\* What get_change needs to know of the commit.
CommitInfo(author_name, date, parent_revision, message) ==
    [author_name |-> author_name, date |-> date,
     parent_revision |-> parent_revision, message |-> message]

\* get_change, step 1, with the commit from the cache.
cached_commit_info(commit) ==
    Step(<<>>, Data(CommitInfo(commit.author_name, commit.date, commit.parent,
                               commit.message)))

\* get_change, step 1, from the first item of the commits API.
item_commit_info(item) ==
    IF item.parents = <<>> THEN Raises(IndexError)
    ELSE Data(CommitInfo(item.commit.author.name,
                         Tuple1(item.commit.committer.date),
                         item.parents[1].sha,
                         item.commit.message))

api_commit_info(s) ==
    IF ~s.ok THEN s
    ELSE IF s.data[1] = <<>> THEN Step(s.requests, Raises(IndexError))
    ELSE Step(s.requests, item_commit_info(s.data[1][1]))

get_commit_info(revision, cached, env) ==
    IF cached # <<>> THEN cached_commit_info(cached[1])
    ELSE api_commit_info(api_get_commits(REPO_API_URL, revision, 1, env))

\* file_shas[path] = sha for every entry of the tree, later entries winning.
file_shas(tree) ==
    [path \in {tree[i].path : i \in 1..Len(tree)} |->
        tree[CHOOSE i \in 1..Len(tree) :
                 /\ tree[i].path = path
                 /\ \A j \in 1..Len(tree) : tree[j].path = path => j <= i].sha]

Lines(lines) == [ok |-> TRUE, lines |-> lines]
NoLines == [ok |-> FALSE, lines |-> <<>>]

git_header(filename) == <<"diff --git a/", filename, " b/", filename>>

modified_lines(file, shas) ==
    <<<<"index ", shas[file.filename], "..", file.sha, " 100644">>,
      <<"--- a/", file.filename>>,
      <<"+++ b/", file.filename>>>>

added_lines_OwnRevision(file) ==
    <<<<"new file mode 100644">>,
      <<"index ", file.sha, "..", file.sha>>,
      <<"--- /dev/null">>,
      <<"+++ b/", file.filename>>>>

added_lines(file) ==
    <<<<"new file mode 100644">>,
      <<"index ", ZEROS_40, "..", file.sha>>,
      <<"--- /dev/null">>,
      <<"+++ b/", file.filename>>>>

removed_lines(file, shas) ==
    <<<<"deleted file mode 100644">>,
      <<"index ", shas[file.filename], "..", ZEROS_40>>,
      <<"--- a/", file.filename>>,
      <<"+++ /dev/null">>>>

\* The lines one file adds to the diff; file_shas[filename] may raise
\* KeyError.
file_lines(file, shas) ==
    IF file.patch = <<>> THEN Lines(<<>>)
    ELSE IF file.status = "modified"
    THEN IF file.filename \in DOMAIN shas
         THEN Lines(<<git_header(file.filename)>> \o modified_lines(file, shas)
                    \o file.patch)
         ELSE NoLines
    ELSE IF file.status = "added"
    THEN Lines(<<git_header(file.filename)>> \o added_lines(file)
               \o file.patch)
    ELSE IF file.status = "removed"
    THEN IF file.filename \in DOMAIN shas
         THEN Lines(<<git_header(file.filename)>> \o removed_lines(file, shas)
                    \o file.patch)
         ELSE NoLines
    ELSE Lines(<<git_header(file.filename)>> \o file.patch)

AndLines(h, t) ==
    IF ~h.ok THEN h ELSE IF ~t.ok THEN t ELSE Lines(h.lines \o t.lines)

RECURSIVE BuildDiff(_, _)
BuildDiff(files, shas) ==
    IF files = <<>> THEN Lines(<<>>)
    ELSE AndLines(file_lines(files[1], shas), BuildDiff(Tail(files), shas))

\* '\n'.join(diff)
RECURSIVE JoinLines(_)
JoinLines(lines) ==
    IF lines = <<>> THEN <<>>
    ELSE IF Len(lines) = 1 THEN lines[1]
    ELSE lines[1] \o <<"\n">> \o JoinLines(Tail(lines))

endswith_newline(text) == text # <<>> /\ text[Len(text)] = "\n"

with_trailing_newline_Always(text) == text \o <<"\n">>

with_trailing_newline(text) ==
    IF endswith_newline(text) THEN text ELSE text \o <<"\n">>

diff_text(lines) == with_trailing_newline(JoinLines(lines))

change_with_diff(revision, info, requests, d) ==
    IF ~d.ok THEN Step(requests, Raises(KeyError))
    ELSE Step(requests,
              Data(Commit(info.author_name, revision, info.date, info.message,
                          info.parent_revision, <<diff_text(d.lines)>>)))

change_with_tree(revision, info, files, s3) ==
    IF ~s3.ok THEN s3
    ELSE change_with_diff(revision, info, s3.requests,
                          BuildDiff(files, file_shas(s3.data[1].tree)))

change_with_comparison(revision, info, s2, env) ==
    IF ~s2.ok THEN s2
    ELSE change_with_tree(
             revision, info, s2.data[1].files,
             Then(s2, api_get_tree(REPO_API_URL, s2.data[1].tree_sha, TRUE,
                                   Len(s2.requests) + 1, env)))

change_with_info(revision, s1, env) ==
    IF ~s1.ok THEN s1
    ELSE change_with_comparison(
             revision, s1.data[1],
             Then(s1, api_get_compare_commits(
                          REPO_API_URL, s1.data[1].parent_revision, revision,
                          Len(s1.requests) + 1, env)),
             env)

\* GitHub.get_change; cached is what cache.get gave for the revision.
get_change(revision, cached, env) ==
    change_with_info(revision, get_commit_info(revision, cached, env), env)

\* repository_id.split('/')
RECURSIVE split(_)
split(text) ==
    IF \A i \in 1..Len(text) : text[i] # "/" THEN <<text>>
    ELSE <<SubSeq(text, 1,
                  (CHOOSE i \in 1..Len(text) :
                       /\ text[i] = "/"
                       /\ \A j \in 1..(i - 1) : text[j] # "/") - 1)>>
         \o split(SubSeq(text,
                         (CHOOSE i \in 1..Len(text) :
                              /\ text[i] = "/"
                              /\ \A j \in 1..(i - 1) : text[j] # "/") + 1,
                         Len(text)))

remote_repository_url(api_url, owner, repository_id) ==
    _build_api_url(<< <<api_url, "repos/">> \o owner \o <<"/">>
                      \o repository_id >>)

remote_repository_response_Any(r) ==
    IF r.ok THEN Data(r.data)
    ELSE IF r.error.type \in HostingServiceErrors
    THEN Data(<<>>)
    ELSE r

\* except HostingServiceError: None for 404, else raise.  The value is
\* <<>> for None.
remote_repository_response(r) ==
    IF r.ok THEN Data(r.data)
    ELSE IF r.error.type \in HostingServiceErrors /\ r.error.http_code = 404
    THEN Data(<<>>)
    ELSE r

\* GitHubClient.api_get_remote_repository
api_get_remote_repository(api_url, owner, repository_id, env) ==
    Step(<<remote_repository_url(api_url, owner, repository_id)>>,
         remote_repository_response(
             api_get(remote_repository_url(api_url, owner, repository_id),
                     1, env)))

RemoteRepository(repository_id, repo) ==
    [repository_id |-> repository_id, name |-> repo.name,
     owner |-> repo.owner.login, scm_type |-> "Git",
     path |-> repo.clone_url, mirror_path |-> repo.mirror_url]

found_repository(repository_id, s) ==
    IF ~s.ok THEN s
    ELSE IF s.data[1] = <<>> THEN Step(s.requests, Raises(ObjectDoesNotExist))
    ELSE Step(s.requests, Data(RemoteRepository(repository_id, s.data[1][1])))

parts_repository(parts, env) ==
    IF Len(parts) = 2
    THEN api_get_remote_repository(API_URL, parts[1], parts[2], env)
    ELSE Step(<<>>, Data(<<>>))

\* GitHub.get_remote_repository
get_remote_repository(repository_id, env) ==
    found_repository(repository_id,
                     parts_repository(split(repository_id), env))

COMMIT_UNKNOWN == "c-unknown"

Revisions == Commits \cup {COMMIT_UNKNOWN}

RepositoryIds ==
    {<<"owner", "/", "repo">>, <<"owner", "/", "gone">>, <<"repo">>,
     <<"owner", "/", "repo", "/", "x">>, <<"owner", "/">>, <<>>}

\* cache.get(repository.get_commit_cache_key(revision))
cache_get(revision) ==
    IF \E c \in cache : c.id = revision
    THEN <<CHOOSE c \in cache : c.id = revision>>
    ELSE <<>>

CommitsArgs(start, env) == [start |-> start, env |-> env]

ChangeArgs(revision, cached, env) ==
    [revision |-> revision, cached |-> cached, env |-> env]

RepositoryArgs(repository_id, env) ==
    [repository_id |-> repository_id, env |-> env]

\* Repository.get_commits: the commits the service lists are cached by id.
GetCommits ==
    /\ \E start \in {None} \cup Revisions, fault \in Faults(1) :
          /\ gh' = Outcome("get_commits", CommitsArgs(start, Env(fault, FALSE)),
                           get_commits(start, Env(fault, FALSE)))
          /\ cache' = IF gh'.raised = <<>>
                      THEN {c \in cache : \A n \in Range(gh'.result[1]) :
                                             n.id # c.id}
                           \cup Range(gh'.result[1])
                      ELSE cache
    /\ UNCHANGED <<diffset, cform, diffVars>>

\* The cache drops its entries.
CacheExpires ==
    /\ cache # {}
    /\ cache' = {}
    /\ UNCHANGED <<gh, diffset, cform, diffVars>>

GetChange ==
    /\ \E revision \in Revisions, env \in Envs(3) :
          gh' = Outcome("get_change",
                        ChangeArgs(revision, cache_get(revision), env),
                        get_change(revision, cache_get(revision), env))
    /\ UNCHANGED <<cache, diffset, cform, diffVars>>

GetRemoteRepository ==
    /\ \E repository_id \in RepositoryIds, fault \in Faults(1) :
          gh' = Outcome("get_remote_repository",
                        RepositoryArgs(repository_id, Env(fault, FALSE)),
                        get_remote_repository(repository_id,
                                              Env(fault, FALSE)))
    /\ UNCHANGED <<cache, diffset, cform, diffVars>>

ApiMethods == {"api_get", "api_post", "api_delete"}

\* json_get / json_post / json_delete as the one request of a call.
json_request(method, url, env) ==
    IF method = "api_get" THEN http_get(url, 1, env)
    ELSE IF env.fault.at = 1 THEN Raises(env.fault.error)
    ELSE Data(<<method, " done">>)

\* GitHubClient.api_get, api_post and api_delete
api_call(method, url, env) ==
    Step(<<url>>, api_get_response(json_request(method, url, env)))

ApiArgs(url, env) == [url |-> url, env |-> env]

\* A call of one of the API wrappers on the commits URL.
ApiCall ==
    /\ \E method \in ApiMethods, fault \in Faults(1) :
          gh' = Outcome(method,
                        ApiArgs(commits_url(REPO_API_URL, None),
                                Env(fault, FALSE)),
                        api_call(method, commits_url(REPO_API_URL, None),
                                 Env(fault, FALSE)))
    /\ UNCHANGED <<cache, diffset, cform, diffVars>>

GitHubInit == CommitIdle /\ DiffIdle /\ GitHubIdle

GitHubNext ==
    \/ GetFile
    \/ GetFileExists
    \/ GetCommits
    \/ CacheExpires
    \/ GetChange
    \/ GetRemoteRepository
    \/ ApiCall

SpecGitHub == GitHubInit /\ [][GitHubNext]_vars

(***************************************************************************)
(* Properties of the GitHub blob fetch.                                    *)
(***************************************************************************)
\* The response to the blob request of a get_file / get_file_exists call.
BlobResponse(args) ==
    http_get(blob_url(REPO_API_URL, args.revision), 1, args.env)

BlobReportedMissing(args) ==
    /\ ~BlobResponse(args).ok
    /\ BlobResponse(args).error.type = "HTTPError"
    /\ BlobResponse(args).error.code = 404

RaisedFileNotFound(call) ==
    call.raised = <<FileNotFound(call.args.path, call.args.revision)>>

\* C16: a blob GitHub reports as not found (HTTP 404) makes get_file raise
\* FileNotFoundError(path, revision) with the requested path and revision;
\* get_file_exists never raises for it, returns True exactly when get_file
\* of the same path and revision under the same response returns, and False
\* exactly when that get_file raises FileNotFoundError.
C16_MissingBlobIsFileNotFound ==
    /\ gh.op = "get_file" /\ BlobReportedMissing(gh.args)
           => RaisedFileNotFound(gh)
    /\ gh.op = "get_file_exists"
           => /\ BlobReportedMissing(gh.args) => gh.raised = <<>>
              /\ gh.result = <<TRUE>> <=> get_file(gh.args).raised = <<>>
              /\ gh.result = <<FALSE>> <=> RaisedFileNotFound(get_file(gh.args))

C16_Witness ==
    /\ gh.op = "get_file_exists"
    /\ gh.args.revision = BLOB_MISSING
    /\ gh.args.env.fault = NoFault
    /\ gh.result = <<FALSE>>
    /\ gh.requests = <<blob_url(REPO_API_URL, BLOB_MISSING)>>

\* The blob is there but the request for it failed with a server error or
\* without any HTTP answer.
TransientFailure(args) ==
    /\ args.revision \in Blobs
    /\ ~BlobResponse(args).ok
    /\ \/ BlobResponse(args).error.type = "URLError"
       \/ BlobResponse(args).error.code >= 500

\* C17: a transient failure (HTTP 5xx, connection error) while fetching a
\* blob is not reported as FileNotFoundError, and get_file_exists does not
\* answer False for a blob that exists but could not be reached.
C17_TransientFailuresKeepKind ==
    gh.op \in {"get_file", "get_file_exists"} /\ TransientFailure(gh.args)
        => /\ ~RaisedFileNotFound(gh)
           /\ gh.result # <<FALSE>>

(***************************************************************************)
(* Properties of GitHub.get_change.                                        *)
(***************************************************************************)
\* The lines of a text, a final newline closing the last line.
RECURSIVE splitlines(_)
splitlines(text) ==
    IF text = <<>> THEN <<>>
    ELSE IF \A i \in 1..Len(text) : text[i] # "\n" THEN <<text>>
    ELSE <<SubSeq(text, 1,
                  (CHOOSE i \in 1..Len(text) :
                       /\ text[i] = "\n"
                       /\ \A j \in 1..(i - 1) : text[j] # "\n") - 1)>>
         \o splitlines(SubSeq(text,
                              (CHOOSE i \in 1..Len(text) :
                                   /\ text[i] = "\n"
                                   /\ \A j \in 1..(i - 1) : text[j] # "\n") + 1,
                              Len(text)))

ChangeReturned == gh.op = "get_change" /\ gh.result # <<>>

\* The lines of the diff of the Commit that get_change returned.
ChangeDiffLines == splitlines(gh.result[1].diff[1])

\* The files GitHub lists for the revision that have a 'patch'.
PatchedFiles(revision) ==
    {f \in Range(FilesOf(revision)) : f.patch # <<>>}

\* The blob of a path in the tree of the parent of a revision.
BaseBlob(revision, path) ==
    (CHOOSE e \in Range(TreeEntries(TreeOf(ParentsOf(revision)[1].sha))) :
         e.path = path).sha

\* Line numbers of the section header of a file.
HeaderAt(lines, filename) ==
    {i \in 1..Len(lines) : lines[i] = git_header(filename)}

SectionIs(lines, filename, expected) ==
    /\ HeaderAt(lines, filename) # {}
    /\ \A i \in HeaderAt(lines, filename) :
          /\ i + Len(expected) <= Len(lines)
          /\ SubSeq(lines, i + 1, i + Len(expected)) = expected

\* C18: in the diff get_change returns, a file with status 'added' has the
\* all-zero 40-character original revision and the original path /dev/null,
\* a 'removed' file has the all-zero modified revision and the modified path
\* /dev/null, and a 'modified' file has the blob SHA of the base tree and its
\* own SHA, neither all-zero, and its non-empty name on both sides.
C18_SentinelsByStatus ==
    ChangeReturned =>
        \A f \in PatchedFiles(gh.args.revision) :
            /\ f.status = "added" =>
                  SectionIs(ChangeDiffLines, f.filename,
                            <<<<"new file mode 100644">>,
                              <<"index ", ZEROS_40, "..", f.sha>>,
                              <<"--- /dev/null">>,
                              <<"+++ b/", f.filename>>>>)
            /\ f.status = "removed" =>
                  SectionIs(ChangeDiffLines, f.filename,
                            <<<<"deleted file mode 100644">>,
                              <<"index ",
                                BaseBlob(gh.args.revision, f.filename),
                                "..", ZEROS_40>>,
                              <<"--- a/", f.filename>>,
                              <<"+++ /dev/null">>>>)
            /\ f.status = "modified" =>
                  /\ SectionIs(ChangeDiffLines, f.filename,
                               <<<<"index ",
                                   BaseBlob(gh.args.revision, f.filename),
                                   "..", f.sha, " 100644">>,
                                 <<"--- a/", f.filename>>,
                                 <<"+++ b/", f.filename>>>>)
                  /\ BaseBlob(gh.args.revision, f.filename) # ZEROS_40
                  /\ f.sha # ZEROS_40
                  /\ f.filename # ""

C18_Witness ==
    /\ ChangeReturned
    /\ gh.args.revision = COMMIT_1
    /\ {f.status : f \in PatchedFiles(COMMIT_1)}
           = {"added", "removed", "modified"}
    /\ Len(ChangeDiffLines) > 12

\* A get_change call for a commit of the repository that no request failure
\* and no truncated tree listing disturbs.
UndisturbedChange ==
    /\ gh.op = "get_change"
    /\ gh.args.revision \in Commits
    /\ gh.args.env = Env(NoFault, FALSE)

\* The comparison and the tree that get_change has to fetch for a revision.
ComparisonFetched(revision) ==
    IF ParentsOf(revision) # <<>>
    THEN /\ Contains(gh.requests,
                     _build_api_url(<< <<REPO_API_URL>>,
                                       <<"compare/",
                                         ParentsOf(revision)[1].sha,
                                         "...", revision>> >>))
         /\ Contains(gh.requests,
                     tree_url(REPO_API_URL,
                              TreeOf(ParentsOf(revision)[1].sha), TRUE))
    ELSE /\ Contains(gh.requests,
                     _build_api_url(<< <<REPO_API_URL>>,
                                       <<"commits/", revision>> >>))
         /\ Contains(gh.requests, tree_url(REPO_API_URL, TreeOf(revision), TRUE))

\* C19: get_change handles a commit with and without a parent, from the
\* cache and from the API alike: with a parent it fetches
\* compare/<parent>...<revision> and the tree of the base commit, without one
\* it fetches commits/<revision> and the tree of that commit, and it returns
\* a Commit.
C19_ParentlessCommitHandled ==
    UndisturbedChange
        => /\ gh.result # <<>>
           /\ gh.result[1].id = gh.args.revision
           /\ ComparisonFetched(gh.args.revision)

(***************************************************************************)
(* Properties of GitHub.get_remote_repository.                             *)
(***************************************************************************)
\* The response to the request a get_remote_repository call makes for an
\* ID of two parts.
RepositoryResponse(args) ==
    http_get(remote_repository_url(API_URL, split(args.repository_id)[1],
                                   split(args.repository_id)[2]),
             1, args.env)

AnsweredWithCode(args, codes) ==
    /\ Len(split(args.repository_id)) = 2
    /\ ~RepositoryResponse(args).ok
    /\ RepositoryResponse(args).error.type = "HTTPError"
    /\ RepositoryResponse(args).error.code \in codes

\* C20: get_remote_repository raises ObjectDoesNotExist, without any
\* request, for an ID that is not of the form owner/repo, and raises it when
\* the API answers 404; an API error with another HTTP code is raised to the
\* caller with that code and is not ObjectDoesNotExist.
C20_NotFoundIsObjectDoesNotExist ==
    gh.op = "get_remote_repository" =>
        /\ Len(split(gh.args.repository_id)) # 2
               => gh.requests = <<>> /\ gh.raised = <<ObjectDoesNotExist>>
        /\ AnsweredWithCode(gh.args, {404})
               => Len(gh.requests) = 1 /\ gh.raised = <<ObjectDoesNotExist>>
        /\ AnsweredWithCode(gh.args, HTTPCodes \ {404})
               => /\ gh.raised # <<>>
                  /\ gh.raised[1].type \in HostingServiceErrors
                  /\ gh.raised[1].http_code
                         = RepositoryResponse(gh.args).error.code

C20_Witness ==
    /\ gh.op = "get_remote_repository"
    /\ gh.args.repository_id = <<"owner", "/", "gone">>
    /\ gh.args.env.fault = NoFault
    /\ gh.requests = <<remote_repository_url(API_URL, <<"owner">>, <<"gone">>)>>
    /\ gh.raised = <<ObjectDoesNotExist>>

(***************************************************************************)
(* The post-receive hook of the GitHub service.  A request body is JSON or *)
(* not; a JSON payload is a push event as GitHub sends it: 'ref' and       *)
(* 'commits' may be missing, a commit has an 'id' and a 'message'.         *)
(***************************************************************************)
MaxPayloadCommits == 3

SERVER_URL == "http://example.com/"
OTHER_URL == "http://other.example.com/"
BRANCH_PREFIX == "refs/heads/"

\* hook_utils.get_git_branch_name: the name after refs/heads/, or None
\* (<<>>) for another ref.
get_git_branch_name(ref_name) ==
    IF ref_name # <<>> /\ ref_name[1] = BRANCH_PREFIX
    THEN <<Tail(ref_name)>>
    ELSE <<>>

\* int() of the digits of a review request URL.
int(digits) ==
    CASE digits = "12" -> 12
      [] digits = "7" -> 7
      [] OTHER -> 0

\* hook_utils.get_review_request_id: the ID of 'Reviewed at <server>r/<id>'
\* in the message, or None (<<>>).
get_review_request_id(commit_message, server_url, commit_hash) ==
    IF \E i \in 1..(Len(commit_message) - 3) :
           /\ commit_message[i] = "Reviewed at "
           /\ commit_message[i + 1] = server_url
           /\ commit_message[i + 2] = "r/"
    THEN <<int(commit_message[
               (CHOOSE i \in 1..(Len(commit_message) - 3) :
                    /\ commit_message[i] = "Reviewed at "
                    /\ commit_message[i + 1] = server_url
                    /\ commit_message[i + 2] = "r/") + 3])>>
    ELSE <<>>

\* commit_hash[:7]
first_7(commit_hash) == SubSeq(commit_hash, 1, Min(7, Len(commit_hash)))

commit_entry_Whole(branch_name, commit_hash) ==
    branch_name \o <<" (">> \o commit_hash \o <<")">>

\* '%s (%s)' % (branch_name, commit_hash[:7])
commit_entry(branch_name, commit_hash) ==
    branch_name \o <<" (">> \o first_7(commit_hash) \o <<")">>

\* review_id_to_commits_map[review_request_id].append(commit_entry) on a
\* defaultdict(list).
append_entry(map, review_request_id, entry) ==
    IF review_request_id \in DOMAIN map
    THEN [map EXCEPT ![review_request_id] = Append(@, entry)]
    ELSE [k \in DOMAIN map \cup {review_request_id} |->
              IF k = review_request_id THEN <<entry>> ELSE map[k]]

EmptyMap == [k \in {} |-> <<>>]

\* The loop over the commits of the payload.
RECURSIVE map_commits(_, _, _, _)
map_commits(map, commits, branch_name, server_url) ==
    IF commits = <<>> THEN map
    ELSE map_commits(
             append_entry(map,
                          get_review_request_id(commits[1].message, server_url,
                                                commits[1].id),
                          commit_entry(branch_name, commits[1].id)),
             Tail(commits), branch_name, server_url)

\* payload.get(key): <<>> when the key is missing.
payload_get_commits(payload) ==
    IF payload.commits = <<>> THEN <<>> ELSE payload.commits[1]

branch_commits_map(payload, branch, server_url) ==
    IF branch = <<>> \/ branch[1] = <<>> THEN <<>>
    ELSE <<map_commits(EmptyMap, payload_get_commits(payload), branch[1],
                       server_url)>>

\* _get_review_id_to_commits_map: None is <<>>, a map m is <<m>>.
_get_review_id_to_commits_map(payload, server_url) ==
    IF payload.ref = <<>> \/ payload.ref[1] = <<>> THEN <<>>
    ELSE branch_commits_map(payload, get_git_branch_name(payload.ref[1]),
                            server_url)

\* HttpResponse(status) and the calls of close_all_review_requests made.
HttpResponse(status, closed) == [status |-> status, closed |-> closed]

hook_response_NotNone(review_id_to_commits) ==
    IF review_id_to_commits = <<>>
    THEN HttpResponse(200, <<>>)
    ELSE HttpResponse(200, <<review_id_to_commits[1]>>)

hook_response(review_id_to_commits) ==
    IF review_id_to_commits = <<>> \/ review_id_to_commits[1] = EmptyMap
    THEN HttpResponse(200, <<>>)
    ELSE HttpResponse(200, <<review_id_to_commits[1]>>)

\* post_receive_hook_close_submitted
post_receive_hook_close_submitted(body) ==
    IF ~body.json THEN HttpResponse(415, <<>>)
    ELSE hook_response(_get_review_id_to_commits_map(body.payload[1],
                                                      SERVER_URL))

\* Commits of push events: hashes are shortened to ten characters.
PushCommit(id, message) == [id |-> id, message |-> message]

HASH_A == <<"a", "1", "b", "2", "c", "3", "d", "4", "e", "5">>
HASH_B == <<"a", "1", "b", "2", "c", "3", "d", "9", "9", "9">>
HASH_C == <<"c", "c", "c", "0", "0", "0", "1", "1", "1", "2">>
HASH_D == <<"d", "e", "a", "d", "b", "e", "e", "f", "0", "0">>

PushCommits ==
    {PushCommit(HASH_A, <<"Fix the parser", "\n", "Reviewed at ", SERVER_URL,
                          "r/", "12">>),
     PushCommit(HASH_B, <<"Reviewed at ", SERVER_URL, "r/", "12", "\n",
                          "Follow-up">>),
     PushCommit(HASH_C, <<"No review here">>),
     PushCommit(HASH_D, <<"Reviewed at ", OTHER_URL, "r/", "7">>)}

RECURSIVE SeqsUpTo(_, _)
SeqsUpTo(S, n) ==
    IF n = 0 THEN {<<>>}
    ELSE SeqsUpTo(S, n - 1)
         \cup {Append(q, x) : q \in {r \in SeqsUpTo(S, n - 1) : Len(r) = n - 1},
                              x \in S}

Refs ==
    {<<>>, <<<<>>>>, <<<<BRANCH_PREFIX, "master">>>>, <<<<BRANCH_PREFIX>>>>,
     <<<<"refs/tags/", "v1">>>>}

Payload(ref, commits) == [ref |-> ref, commits |-> commits]

Payloads ==
    {Payload(ref, commits) :
         ref \in Refs,
         commits \in {<<>>} \cup {<<c>> : c \in SeqsUpTo(PushCommits,
                                                         MaxPayloadCommits)}}

NotJson == [json |-> FALSE, payload |-> <<>>]
Json(payload) == [json |-> TRUE, payload |-> <<payload>>]

Bodies == {NotJson} \cup {Json(payload) : payload \in Payloads}

\* A direct call of _get_review_id_to_commits_map.
GetReviewIdToCommitsMap ==
    /\ \E payload \in Payloads :
          gh' = Returned("_get_review_id_to_commits_map",
                         [payload |-> payload, server_url |-> SERVER_URL],
                         <<>>,
                         _get_review_id_to_commits_map(payload, SERVER_URL))
    /\ UNCHANGED <<cache, diffset, cform, diffVars>>

\* A POST to the hook.
PostReceiveHook ==
    /\ \E body \in Bodies :
          gh' = Returned("post_receive_hook_close_submitted", [body |-> body],
                         <<>>, post_receive_hook_close_submitted(body))
    /\ UNCHANGED <<cache, diffset, cform, diffVars>>

HookNext ==
    \/ GetReviewIdToCommitsMap
    \/ PostReceiveHook

SpecHook == GitHubInit /\ [][HookNext]_vars

(***************************************************************************)
(* Properties of the post-receive hook.                                    *)
(***************************************************************************)
MapReturned == gh.op = "_get_review_id_to_commits_map"

PayloadBranch(payload) ==
    IF payload.ref = <<>> THEN <<>> ELSE get_git_branch_name(payload.ref[1])

HasBranch(payload) ==
    PayloadBranch(payload) # <<>> /\ PayloadBranch(payload)[1] # <<>>

\* The positions of the payload's commits that belong under a key.
PositionsOf(payload, key) ==
    {i \in 1..Len(payload_get_commits(payload)) :
         get_review_request_id(payload_get_commits(payload)[i].message,
                               SERVER_URL,
                               payload_get_commits(payload)[i].id) = key}

\* The i-th smallest member of a set of numbers.
RECURSIVE Nth(_, _)
Nth(S, i) ==
    IF i = 1 THEN CHOOSE x \in S : \A y \in S : x <= y
    ELSE Nth(S \ {CHOOSE x \in S : \A y \in S : x <= y}, i - 1)

\* C21: for a push payload with a branch ref, the map holds every commit of
\* the payload exactly once, in payload order, under the review request ID of
\* its message, or under None when the message has none, each entry being
\* '<branch> (<first 7 characters of the hash>)'; without a 'ref', or with a
\* ref that is no branch, the function returns None.
C21_CommitsMappedOnceInOrder ==
    MapReturned =>
        /\ ~HasBranch(gh.args.payload) <=> gh.result[1] = <<>>
        /\ HasBranch(gh.args.payload) =>
              /\ \A key \in DOMAIN gh.result[1][1] :
                    PositionsOf(gh.args.payload, key) # {}
              /\ \A key \in {<<>>, <<12>>, <<7>>} :
                    PositionsOf(gh.args.payload, key) # {}
                        => /\ key \in DOMAIN gh.result[1][1]
                           /\ Len(gh.result[1][1][key])
                                  = Cardinality(PositionsOf(gh.args.payload,
                                                            key))
                           /\ \A n \in 1..Len(gh.result[1][1][key]) :
                                 gh.result[1][1][key][n] =
                                     PayloadBranch(gh.args.payload)[1]
                                     \o <<" (">>
                                     \o SubSeq(
                                            payload_get_commits(
                                                gh.args.payload)[
                                                Nth(PositionsOf(
                                                        gh.args.payload, key),
                                                    n)].id,
                                            1, 7)
                                     \o <<")">>

C21_Witness ==
    /\ MapReturned
    /\ gh.result[1] # <<>>
    /\ DOMAIN gh.result[1][1] = {<<>>, <<12>>}
    /\ Len(gh.result[1][1][<<12>>]) = 2
    /\ gh.result[1][1][<<>>]
           = <<<<"master", " (", "d", "e", "a", "d", "b", "e", "e", ")">>>>
    /\ Len(payload_get_commits(gh.args.payload)) = 3

HookAnswered == gh.op = "post_receive_hook_close_submitted"

\* A payload the hook has nothing to close for: no ref, no branch ref or no
\* commits.
NothingToClose(payload) ==
    ~HasBranch(payload) \/ payload_get_commits(payload) = <<>>

RECURSIVE SumLen(_, _)
SumLen(map, keys) ==
    IF keys = {} THEN 0
    ELSE Len(map[CHOOSE k \in keys : TRUE])
         + SumLen(map, keys \ {CHOOSE k \in keys : TRUE})

\* C25: the hook calls close_all_review_requests at most once per request: a
\* body that is no JSON is answered 415 and closes nothing; a payload
\* without ref, with a ref that is no branch, or without commits is answered
\* 200 and closes nothing; any other payload is answered 200 after exactly
\* one call with the map of all its commits.
C25_ClosesOnceForUsablePayload ==
    HookAnswered =>
        /\ Len(gh.result[1].closed) <= 1
        /\ ~gh.args.body.json
               => gh.result[1] = HttpResponse(415, <<>>)
        /\ gh.args.body.json /\ NothingToClose(gh.args.body.payload[1])
               => gh.result[1] = HttpResponse(200, <<>>)
        /\ gh.args.body.json /\ ~NothingToClose(gh.args.body.payload[1])
               => /\ gh.result[1].status = 200
                  /\ gh.result[1].closed
                         = _get_review_id_to_commits_map(
                               gh.args.body.payload[1], SERVER_URL)
                  /\ SumLen(gh.result[1].closed[1],
                            DOMAIN gh.result[1].closed[1])
                         = Len(payload_get_commits(gh.args.body.payload[1]))

C25_Witness ==
    /\ HookAnswered
    /\ gh.args.body.json
    /\ Len(payload_get_commits(gh.args.body.payload[1])) = 3
    /\ gh.result[1].status = 200
    /\ Len(gh.result[1].closed) = 1
    /\ DOMAIN gh.result[1].closed[1] = {<<>>, <<12>>}

(***************************************************************************)
(* Properties of the API wrappers.                                         *)
(***************************************************************************)
\* A call of an API wrapper whose request failed, and the error it met.
ApiFailed == gh.op \in ApiMethods /\ gh.args.env.fault.at = 1

ApiError == gh.args.env.fault.error

ExpectedErrorType(e) ==
    IF e.message /\ e.otp THEN "TwoFactorAuthCodeRequiredError"
    ELSE IF e.message /\ e.code = 401 THEN "AuthorizationError"
    ELSE "HostingServiceError"

\* C22: after a URLError or HTTPError, api_get, api_post and api_delete
\* never return: _check_api_error raises TwoFactorAuthCodeRequiredError for
\* a JSON body with a 'message' and an X-GitHub-OTP header starting with
\* 'required;' (also for code 401), else AuthorizationError for such a body
\* and code 401, else HostingServiceError, and HostingServiceError for a body
\* that is no JSON or has no 'message'; the error raised carries the HTTP
\* code.
C22_ApiErrorsClassified ==
    ApiFailed =>
        /\ gh.result = <<>>
        /\ gh.raised # <<>>
        /\ gh.raised[1].type = ExpectedErrorType(ApiError)
        /\ ApiError.type = "HTTPError" => gh.raised[1].http_code = ApiError.code

(***************************************************************************)
(* Properties of the diff text and the Commit of GitHub.get_change.        *)
(***************************************************************************)
\* The files of a revision with a 'patch', in the order GitHub lists them.
PatchedSeq(revision) ==
    SelectSeq(FilesOf(revision), LAMBDA f : f.patch # <<>>)

\* The line numbers of the section headers of a diff.
HeaderPositions(lines) ==
    {i \in 1..Len(lines) : lines[i] # <<>> /\ lines[i][1] = "diff --git a/"}

\* The last line of the section whose header is the n-th.
SectionEnd(lines, n) ==
    IF n < Cardinality(HeaderPositions(lines))
    THEN Nth(HeaderPositions(lines), n + 1) - 1
    ELSE Len(lines)

EndsWith(text, tail) ==
    /\ Len(tail) <= Len(text)
    /\ SubSeq(text, Len(text) - Len(tail) + 1, Len(text)) = tail

\* The end of the diff text after the files given: the last patch, with one
\* newline more only when the patch does not end with one.
ExpectedEnd(files) ==
    IF files = <<>> THEN <<"\n">>
    ELSE IF files[Len(files)].patch[1][Len(files[Len(files)].patch[1])] = "\n"
    THEN files[Len(files)].patch[1]
    ELSE files[Len(files)].patch[1] \o <<"\n">>

\* C23: the diff of get_change has one section for every changed file with
\* a 'patch', in the order of GitHub's list, each beginning with
\* 'diff --git a/<name> b/<name>' and ending with the file's patch; a file
\* without a 'patch' adds no line; the text ends with a newline, which is
\* appended only when the text does not end with one already.
C23_OneSectionPerPatchedFile ==
    ChangeReturned =>
        /\ Cardinality(HeaderPositions(ChangeDiffLines))
               = Len(PatchedSeq(gh.args.revision))
        /\ \A n \in 1..Len(PatchedSeq(gh.args.revision)) :
              /\ ChangeDiffLines[Nth(HeaderPositions(ChangeDiffLines), n)]
                     = <<"diff --git a/",
                         PatchedSeq(gh.args.revision)[n].filename, " b/",
                         PatchedSeq(gh.args.revision)[n].filename>>
              /\ EndsWith(SubSeq(ChangeDiffLines,
                                 Nth(HeaderPositions(ChangeDiffLines), n) + 1,
                                 SectionEnd(ChangeDiffLines, n)),
                          splitlines(PatchedSeq(gh.args.revision)[n].patch[1]))
        /\ \A f \in Range(FilesOf(gh.args.revision)) :
              f.patch = <<>> =>
                  \A i \in 1..Len(ChangeDiffLines) :
                      ~Contains(ChangeDiffLines[i], f.filename)
        /\ EndsWith(gh.result[1].diff[1],
                    ExpectedEnd(PatchedSeq(gh.args.revision)))
        /\ PatchedSeq(gh.args.revision) = <<>>
               => gh.result[1].diff[1] = <<"\n">>
        /\ ~EndsWith(gh.result[1].diff[1],
                     ExpectedEnd(PatchedSeq(gh.args.revision)) \o <<"\n">>)

C23_Witness ==
    /\ ChangeReturned
    /\ gh.args.revision = COMMIT_1
    /\ Len(FilesOf(COMMIT_1)) = 4
    /\ Cardinality(HeaderPositions(ChangeDiffLines)) = 3
    /\ ChangeDiffLines[Len(ChangeDiffLines)] = <<"-old">>

\* What get_change gives for the same revision and the same responses when
\* the commit is not in the cache.
FromApi == get_change(gh.args.revision, <<>>, gh.args.env)

\* C24: for the same revision and the same GitHub responses, get_change
\* returns the same Commit (author name, date, message, parent revision and
\* diff) whether the commit is taken from the cache or fetched from the API.
C24_CacheAndApiAgree ==
    UndisturbedChange /\ gh.args.cached # <<>>
        => /\ gh.result # <<>>
           /\ FromApi.ok
           /\ FromApi.data = gh.result

(***************************************************************************)
(* Properties of the DiffSet over several uploads.                         *)
(***************************************************************************)
\* C14: after any number of successful create calls on an unpublished
\* DiffSet, the files of the DiffSet are the union of the files of its
\* commits, every file is a file of exactly one commit, and there are as
\* many commits as successful calls; the upload of a one-file diff adds one
\* commit with one file.
C14_FilesPartitionedByCommits ==
    /\ Len(diffset.commit_files) = Len(diffset.commits)
    /\ FileIds(diffset.files)
           = UNION {diffset.commit_files[k] : k \in DOMAIN diffset.commits}
    /\ Cardinality(FileIds(diffset.files)) = Len(diffset.files)
    /\ \A i \in DOMAIN diffset.files :
          Cardinality({k \in DOMAIN diffset.commits :
                          diffset.files[i].id \in diffset.commit_files[k]})
              = 1
    /\ Len(diffset.commits) = diffset.creates
    /\ cform.pc = "created" =>
          /\ Cardinality(diffset.commit_files[Len(diffset.commits)]) = 1
          /\ diffset.commits[Len(diffset.commits)] = cform.data.commit_id
    /\ diffset.creates = 1 =>
          /\ Len(diffset.files) = 1
          /\ Len(diffset.commits) = 1
          /\ diffset.commit_files[1] = FileIds(diffset.files)

C14_Witness ==
    /\ diffset.creates = 2
    /\ Len(diffset.files) = 2
    /\ diffset.commit_files[1] # diffset.commit_files[2]
    /\ cform.pc = "created"

\* Uploads of both kinds, one request at a time.
UploadsNext ==
    \/ DiffIdle /\ CommitNext
    \/ cform.pc = "unbound" /\ DiffNext

SpecUploads == CommitInit /\ [][UploadsNext]_vars

\* A step that attaches something to the DiffSet of the commit uploads.
CommitAttached ==
    \/ diffset'.commits # diffset.commits
    \/ diffset'.files # diffset.files
    \/ diffset'.commit_files # diffset.commit_files

\* A step that creates a DiffSet from a diff upload, or asks the
\* repository about it.
DiffSetAttached ==
    \/ upload' # upload /\ upload' # <<>>
    \/ calls'.exists # calls.exists /\ calls'.exists # <<>>

\* A step in which create() of a form refuses.
CommitRejected == cform.pc # "failed" /\ cform'.pc = "failed"

DiffRejected == dform.pc # "failed" /\ dform'.pc = "failed"

OnlyValidFormsCreate ==
    /\ CommitAttached =>
          /\ UploadCommitForm_is_valid(cform)
          /\ cform'.pc = "created"
          /\ diffset'.commits = Append(diffset.commits, cform.data.commit_id)
          /\ Len(diffset'.files) = Len(diffset.files) + 1
    /\ DiffSetAttached =>
          /\ UploadDiffForm_is_valid(dform)
          /\ dform.files.path # None
          /\ dform'.pc = "created"
    /\ CommitRejected =>
          /\ cform.errors # {}
          /\ diffset' = diffset
          /\ cform'.result = <<>>
    /\ DiffRejected =>
          /\ dform.errors # {}
          /\ upload' = upload /\ upload = <<>>
          /\ calls' = calls

NothingFromInvalidForms ==
    /\ cform.pc = "created" => cform.errors = {}
    /\ dform.pc = "created" => dform.errors = {}
    /\ cform.errors # {} => cform.result = <<>>
    /\ dform.errors # {} => (upload = <<>> /\ calls = NoCalls)

\* C15: create() of either form reaches create_from_upload only when the
\* form is valid: every step that attaches a commit or a file to a DiffSet
\* is the create() of a valid form, and a create() that refuses leaves the
\* DiffSet's commits and files as they were.
C15_InvalidFormsCreateNothing ==
    []NothingFromInvalidForms /\ [][OnlyValidFormsCreate]_vars

C15_Witness ==
    /\ cform.pc = "failed"
    /\ diffset.history_id = None
    /\ diffset.creates = 1
    /\ Len(diffset.files) = 1

=============================================================================
